---- MODULE Spec2Model ----
(***************************************************************************)
(* ts-callpath: static call-graph recovery for TypeScript.                 *)
(*                                                                         *)
(* The module models the symbol resolver (resolver.ts), the graph builder  *)
(* and slicer (graph.ts) and the graph primitives (types.ts).              *)
(*                                                                         *)
(* Strings are sequences of tokens, so that string construction            *)
(* (`${a}::${b}`) and string parsing (indexOf("::"), slice, startsWith)    *)
(* are computed and not assumed: "a.ts::K.m" is <<"a", ".ts", "::", "K",   *)
(* ".", "m">>.  The empty string and `undefined` are both <<>>; the code   *)
(* tests such values for truthiness only.                                  *)
(***************************************************************************)
EXTENDS Integers, Sequences, FiniteSets, TLC

VARIABLES
    files,            \* the file system: path -> source file (the input)
    includeExternal,  \* Resolver.includeExternal
    options,          \* BfsOptions: maxDepth, maxNodes
    sourceIds,        \* the source ids of the build, in order
    targetIds,        \* the target ids of the build
    srcIdx,           \* index of the source whose traversal runs
    pc,               \* position in the build
    graph,            \* forwardBfs: graph
    queue,            \* forwardBfs: queue of <<id, depth>>
    visited,          \* forwardBfs: visited
    edgeKeys,         \* forwardBfs: edgeKeys
    cur,              \* forwardBfs: the dequeued entry and its pending call sites
    depthOf,          \* forwardBfs: the depth each id was enqueued at (ghost)
    bfsGraphs,        \* cli: the graphs returned by the traversals
    fullGraph,        \* cli: the (merged) graph
    outputGraph,      \* cli: the sliced graph
    arg,              \* the input of a pure-function specification
    out               \* the result of a pure-function specification

vars == <<files, includeExternal, options, sourceIds, targetIds, srcIdx, pc,
          graph, queue, visited, edgeKeys, cur, depthOf, bfsGraphs, fullGraph,
          outputGraph, arg, out>>

----------------------------------------------------------------------------
(* Bounds *)

MaxCallSites == 2       \* call sites of the function `main`
MaxDepthBound == 2      \* options.maxDepth ranges over 0..MaxDepthBound
MaxNodesBound == 3      \* options.maxNodes ranges over 0..MaxNodesBound
MaxStack == 10          \* call-stack frames before a RangeError is thrown
MaxDi == 2              \* DI defaults of a function
MaxEdges == 3           \* edges of a graph given to sliceGraph and mergeGraphs
MaxReExports == 2       \* re-exports of a file
MaxRequests == 3        \* getFile requests on one Resolver
MaxDfsEdges == 3        \* edges of a graph given to detectBackedges
MaxLayoutEdges == 3     \* edges of a graph given to layoutGraph
MaxLayouts == 3         \* layoutGraph calls on one graph
MaxSpan == 3            \* layers an edge given to createDummyNodes spans
MaxDummyEdges == 2      \* edges of a graph given to createDummyNodes
MaxStatements == 3      \* top-level statements of a source text
MaxDotEdges == 2        \* edges of a graph given to renderDot
MaxVisActions == 3      \* actions of the user on one rendered graph

----------------------------------------------------------------------------
(* Strings and values *)

Null == [tag |-> "null"]
Throw(e) == [tag |-> "throw", error |-> e]
IsThrow(r) == r.tag = "throw"

RECURSIVE indexOfFrom(_, _, _)
indexOfFrom(s, tok, i) ==
    IF i > Len(s) THEN -1
    ELSE IF s[i] = tok THEN i - 1
    ELSE indexOfFrom(s, tok, i + 1)

\* String.prototype.indexOf, 0-based, -1 when absent
indexOf(s, tok) == indexOfFrom(s, tok, 1)

\* String.prototype.startsWith for a one-token prefix
startsWith(s, tok) == Len(s) > 0 /\ s[1] = tok

\* Map.prototype.get on a map whose values are strings; <<>> when absent
MapGet(m, k) == IF k \in DOMAIN m THEN m[k] ELSE <<>>

\* Array.prototype.find on a sequence, given the set `hits` of the positions
\* whose element passes the test: the first such element
Find(s, hits) ==
    IF hits = {} THEN Null
    ELSE [tag |-> "some", val |-> s[CHOOSE i \in hits : \A j \in hits : i <= j]]

makeFunctionId(filePath, qualifiedName) == filePath \o <<"::">> \o qualifiedName

parseFunctionId(id) ==
    LET sep == indexOf(id, "::") IN
    IF sep = -1 THEN Throw("Invalid FunctionId")
    ELSE [tag |-> "ok",
          filePath |-> SubSeq(id, 1, sep),
          qualifiedName |-> SubSeq(id, sep + 2, Len(id))]

----------------------------------------------------------------------------
(* The file system and the parser's output                                 *)
(*                                                                         *)
(* `files` maps the paths that exist on disk to their source, given in the *)
(* shape the parser extracts (functions with call sites and DI defaults,   *)
(* imports, re-exports, export and binding maps).  Files do not change     *)
(* during a build, so the resolver's file cache is transparent and getFile *)
(* is a function of the path.                                              *)

\* parser.ts parseSource: the record it returns.  The returned object has no
\* instanceBindings property (parser.ts:290-297).
parseSource(filePath, src) ==
    [filePath |-> filePath,
     functions |-> src.functions,
     imports |-> src.imports,
     reExports |-> src.reExports,
     exportedNames |-> src.exportedNames,
     objectPropertyBindings |-> src.objectPropertyBindings]

\* Resolver.getFile: null when the file is missing or parseFile throws
getFile(filePath) ==
    IF filePath \notin DOMAIN files THEN Null
    ELSE IF ~files[filePath].readable THEN Null
    ELSE [tag |-> "some", val |-> parseSource(filePath, files[filePath])]

\* What ts.resolveModuleName answers for a bare specifier: nothing for a
\* package that is not installed, a node_modules file for an installed one,
\* and a file whose real path is inside the repository for a workspace link.
Packages ==
    [s \in {<<"dep">>, <<"@ws">>} |->
        IF s = <<"dep">>
        THEN [resolvedFileName |-> <<"node_modules", "/", "dep", ".ts">>,
              isExternalLibraryImport |-> TRUE,
              realPath |-> <<"node_modules", "/", "dep", ".ts">>]
        ELSE [resolvedFileName |-> <<"node_modules", "/", "@ws", ".ts">>,
              isExternalLibraryImport |-> TRUE,
              realPath |-> <<"b", ".ts">>]]

\* ts.resolveModuleName: a relative specifier "./x" resolves to x.ts when
\* that file exists, a bare one through Packages.
tsResolveModuleName(specifier) ==
    IF startsWith(specifier, ".")
    THEN LET candidate == SubSeq(specifier, 3, Len(specifier)) \o <<".ts">> IN
         IF candidate \in DOMAIN files
         THEN [tag |-> "some",
               val |-> [resolvedFileName |-> candidate,
                        isExternalLibraryImport |-> FALSE,
                        realPath |-> candidate]]
         ELSE Null
    ELSE IF specifier \in DOMAIN Packages
    THEN [tag |-> "some", val |-> Packages[specifier]]
    ELSE Null

Extensions == <<".ts", ".tsx", ".js", ".jsx">>

RECURSIVE firstExisting(_, _)
firstExisting(basePath, i) ==
    IF i > Len(Extensions) THEN <<>>
    ELSE IF (basePath \o <<Extensions[i]>>) \in DOMAIN files
    THEN basePath \o <<Extensions[i]>>
    ELSE firstExisting(basePath, i + 1)

\* resolver.ts:93-110: accept an in-project module or a workspace symlink
acceptResolved(result) ==
    IF result.tag = "null" THEN <<>>
    ELSE IF ~result.val.isExternalLibraryImport THEN result.val.resolvedFileName
    ELSE IF result.val.realPath \in DOMAIN files
            /\ indexOf(result.val.realPath, "node_modules") = -1
    THEN result.val.realPath
    ELSE <<>>

\* resolver.ts:113-126: the manual fallback for relative specifiers
orRelativeFallback(accepted, specifier) ==
    IF accepted # <<>> THEN accepted
    ELSE IF startsWith(specifier, ".")
    THEN firstExisting(SubSeq(specifier, 3, Len(specifier)), 1)
    ELSE <<>>

\* Resolver.resolveModule: the resolved path, <<>> for null
resolveModule(specifier, fromFile) ==
    orRelativeFallback(acceptResolved(tsResolveModuleName(specifier)), specifier)

\* The FunctionNode the resolver builds for a parsed function
FunctionNode(filePath, qualifiedName, fn) ==
    [id |-> makeFunctionId(filePath, qualifiedName),
     filePath |-> filePath,
     qualifiedName |-> qualifiedName,
     line |-> fn.line,
     isInstrumented |-> fn.isInstrumented,
     isExternal |-> FALSE]

Resolved(filePath, qualifiedName, fn, kind) ==
    [tag |-> "ok",
     targetId |-> makeFunctionId(filePath, qualifiedName),
     targetNode |-> FunctionNode(filePath, qualifiedName, fn),
     kind |-> kind]

\* `{ ...result, kind }`
WithKind(result, kind) == [result EXCEPT !.kind = kind]

----------------------------------------------------------------------------
(* resolver.ts.  Every operator takes the depth of the call stack: a call  *)
(* deeper than MaxStack frames throws RangeError, as the engine does when  *)
(* the stack is exhausted.  A result is Null, a thrown error, or a value;  *)
(* inside a resolver, Next_ says that a strategy did not match and the     *)
(* code falls through to the next one.                                     *)

Next_ == [tag |-> "next"]

\* `if (result) return ...` chains: r unless it fell through
OrElse(r, alt) == IF r.tag = "next" THEN alt ELSE r
\* the `return null` at the end of a resolver
OrNull(r) == IF r.tag = "next" THEN Null ELSE r
\* the first value that is not null
OrIfNull(r, alt) == IF r.tag = "null" THEN alt ELSE r

\* A found export as a resolver result of the given kind; falls through
\* when nothing was found
Lift(result, kind) ==
    IF result.tag = "some"
    THEN Resolved(result.filePath, result.fn.qualifiedName, result.fn, kind)
    ELSE IF result.tag = "throw" THEN result
    ELSE Next_

\* `if (result) return { ...result, kind }`
Relabel(result, kind) ==
    IF result.tag = "ok" THEN WithKind(result, kind)
    ELSE IF result.tag = "throw" THEN result
    ELSE Next_

\* `const fn = functions.find(...); if (fn) return { id, node, kind }`
localHit(fn, filePath, qualifiedName, kind) ==
    IF fn.tag = "some" THEN Resolved(filePath, qualifiedName, fn.val, kind) ELSE Next_

\* `const fn = file.functions.find(...); if (fn) return { filePath, fn }`
found(fn, filePath) ==
    IF fn.tag = "some" THEN [tag |-> "some", filePath |-> filePath, fn |-> fn.val]
    ELSE Null

findFunction(file, qualifiedName) ==
    Find(file.functions,
         {i \in 1..Len(file.functions) : file.functions[i].qualifiedName = qualifiedName})

findImport(file, localName) ==
    Find(file.imports, {i \in 1..Len(file.imports) : file.imports[i].localName = localName})

\* visitedHas without the visited set
visitedNever(visitedKeys, key) == FALSE

\* resolver.ts:166 / :215, `visited.has(key)`
visitedHas(visitedKeys, key) == key \in visitedKeys

\* resolver.ts:184-188 / :194-197: the function a local name denotes
exportedLocal(file, filePath, localName) ==
    IF localName # <<>> THEN found(findFunction(file, localName), filePath) ELSE Null

\* resolver.ts:183-200, the local exports of findExport
findExportLocal(file, filePath, exportedName) ==
    OrIfNull(exportedLocal(file, filePath, MapGet(file.exportedNames, exportedName)),
             IF exportedName = <<"default">>
             THEN exportedLocal(file, filePath, MapGet(file.exportedNames, <<"default">>))
             ELSE Null)

\* resolver.ts:174-175 / :223-224: the module a matching re-export names
reExportTarget(reExport, exportedName, filePath) ==
    IF reExport.exportedName = exportedName
    THEN resolveModule(reExport.moduleSpecifier, filePath)
    ELSE <<>>

RECURSIVE findExport(_, _, _, _)
RECURSIVE findExportReExports(_, _, _, _, _, _)
RECURSIVE findExportVia(_, _, _, _, _, _, _)

\* resolver.ts:176-178
findExportVia(targetPath, file, filePath, exportedName, visitedKeys, i, depth) ==
    IF targetPath # <<>>
    THEN findExport(targetPath, file.reExports[i].importedName, visitedKeys, depth + 1)
    ELSE findExportReExports(file, filePath, exportedName, visitedKeys, i + 1, depth)

\* resolver.ts:173-180, the loop over file.reExports
findExportReExports(file, filePath, exportedName, visitedKeys, i, depth) ==
    IF i > Len(file.reExports) THEN findExportLocal(file, filePath, exportedName)
    ELSE findExportVia(reExportTarget(file.reExports[i], exportedName, filePath),
                       file, filePath, exportedName, visitedKeys, i, depth)

\* resolver.ts:169-170 and on: the body of findExport once the key is new
findExportIn(file, filePath, exportedName, visitedKeys, depth) ==
    IF file.tag = "null" THEN Null
    ELSE findExportReExports(file.val, filePath, exportedName, visitedKeys, 1, depth)

\* Resolver.findExport
findExport(filePath, exportedName, visitedKeys, depth) ==
    IF depth > MaxStack THEN Throw("RangeError")
    ELSE IF visitedHas(visitedKeys, filePath \o <<"::">> \o exportedName) THEN Null
    ELSE findExportIn(getFile(filePath), filePath, exportedName,
                      visitedKeys \cup {filePath \o <<"::">> \o exportedName}, depth)

\* resolver.ts:232, `file.exportedNames.get(exportedName) ?? exportedName`
classLocalName(file, exportedName) ==
    IF exportedName \in DOMAIN file.exportedNames
    THEN file.exportedNames[exportedName]
    ELSE exportedName

\* resolver.ts:238-242, the object-property-binding fallback
boundFunction(file, filePath, qualifiedName, binding) ==
    IF binding # <<>> /\ binding # qualifiedName
    THEN found(findFunction(file, binding), filePath)
    ELSE Null

\* resolver.ts:233-244, for the qualified name ClassName.methodName
findQualified(file, filePath, qualifiedName) ==
    OrIfNull(found(findFunction(file, qualifiedName), filePath),
             boundFunction(file, filePath, qualifiedName,
                           MapGet(file.objectPropertyBindings, qualifiedName)))

\* resolver.ts:231-244, the lookup of ClassName.methodName in findClassMethod
findClassMethodLocal(file, filePath, exportedName, methodName) ==
    findQualified(file, filePath, classLocalName(file, exportedName) \o <<".">> \o methodName)

RECURSIVE findClassMethod(_, _, _, _, _)
RECURSIVE findClassMethodReExports(_, _, _, _, _, _, _)
RECURSIVE findClassMethodVia(_, _, _, _, _, _, _, _)

\* resolver.ts:225-227
findClassMethodVia(targetPath, file, filePath, exportedName, methodName, visitedKeys, i, depth) ==
    IF targetPath # <<>>
    THEN findClassMethod(targetPath, file.reExports[i].importedName, methodName,
                         visitedKeys, depth + 1)
    ELSE findClassMethodReExports(file, filePath, exportedName, methodName,
                                  visitedKeys, i + 1, depth)

\* resolver.ts:222-229, the loop over file.reExports
findClassMethodReExports(file, filePath, exportedName, methodName, visitedKeys, i, depth) ==
    IF i > Len(file.reExports)
    THEN findClassMethodLocal(file, filePath, exportedName, methodName)
    ELSE findClassMethodVia(reExportTarget(file.reExports[i], exportedName, filePath),
                            file, filePath, exportedName, methodName, visitedKeys, i, depth)

\* resolver.ts:218-219 and on: the body of findClassMethod once the key is new
findClassMethodIn(file, filePath, exportedName, methodName, visitedKeys, depth) ==
    IF file.tag = "null" THEN Null
    ELSE findClassMethodReExports(file.val, filePath, exportedName, methodName,
                                  visitedKeys, 1, depth)

\* Resolver.findClassMethod
findClassMethod(filePath, exportedName, methodName, visitedKeys, depth) ==
    IF depth > MaxStack THEN Throw("RangeError")
    ELSE IF visitedHas(visitedKeys,
                       filePath \o <<"::">> \o exportedName \o <<".">> \o methodName)
    THEN Null
    ELSE findClassMethodIn(getFile(filePath), filePath, exportedName, methodName,
             visitedKeys \cup {filePath \o <<"::">> \o exportedName \o <<".">> \o methodName},
             depth)

\* Resolver.makeExternalResult
makeExternalResult(moduleSpecifier, exportedName) ==
    [tag |-> "ok",
     targetId |-> makeFunctionId(<<"<external>", "::">> \o moduleSpecifier, exportedName),
     targetNode |->
         [id |-> makeFunctionId(<<"<external>", "::">> \o moduleSpecifier, exportedName),
          filePath |-> <<"<external>", "::">> \o moduleSpecifier,
          qualifiedName |-> exportedName,
          line |-> 0,
          isInstrumented |-> FALSE,
          isExternal |-> TRUE],
     kind |-> "external"]

\* resolver.ts:344-346 and its copies: an unresolved module is external
isExternalSpecifier(moduleSpecifier) ==
    /\ includeExternal
    /\ ~startsWith(moduleSpecifier, ".")
    /\ ~startsWith(moduleSpecifier, "/")

\* resolver.ts:343-349 and its copies
orExternal(moduleSpecifier, exportedName) ==
    IF isExternalSpecifier(moduleSpecifier)
    THEN makeExternalResult(moduleSpecifier, exportedName)
    ELSE Next_

\* resolver.ts:318-349: a named import, its module resolved to targetPath
simpleViaModule(imp, targetPath, depth) ==
    IF targetPath # <<>>
    THEN Lift(findExport(targetPath, imp.importedName, {}, depth + 1), "direct")
    ELSE orExternal(imp.moduleSpecifier, imp.importedName)

\* resolver.ts:317
simpleViaImport(imp, callerFile, depth) ==
    IF imp.tag = "some" /\ ~imp.val.isNamespace
    THEN simpleViaModule(imp.val,
                         resolveModule(imp.val.moduleSpecifier, callerFile.filePath), depth)
    ELSE Next_

\* resolver.ts:316-350, the import strategy of resolveSimpleCall
resolveSimpleCallImport(calleeName, callerFile, depth) ==
    simpleViaImport(findImport(callerFile, calleeName), callerFile, depth)

\* resolver.ts:296-313, the local-function strategy of resolveSimpleCall
resolveSimpleCallLocal(calleeName, callerFile) ==
    localHit(findFunction(callerFile, calleeName), callerFile.filePath, calleeName, "direct")

\* resolver.ts:355, the guard of the DI-default loop
diGuard(di, calleeName) == di.localRef # <<>> /\ di.localRef # calleeName

RECURSIVE resolveSimpleCall(_, _, _, _)
RECURSIVE resolveSimpleCallDi(_, _, _, _, _)

\* resolver.ts:354-359, the loop over callerFunction.diDefaults
resolveSimpleCallDi(calleeName, callerFile, callerFunction, i, depth) ==
    IF i > Len(callerFunction.diDefaults) THEN Null
    ELSE OrElse(IF diGuard(callerFunction.diDefaults[i], calleeName)
                THEN Relabel(resolveSimpleCall(callerFunction.diDefaults[i].localRef,
                                               callerFile, callerFunction, depth + 1),
                             "di-default")
                ELSE Next_,
                resolveSimpleCallDi(calleeName, callerFile, callerFunction, i + 1, depth))

\* Resolver.resolveSimpleCall
resolveSimpleCall(calleeName, callerFile, callerFunction, depth) ==
    IF depth > MaxStack THEN Throw("RangeError")
    ELSE OrElse(resolveSimpleCallLocal(calleeName, callerFile),
         OrElse(resolveSimpleCallImport(calleeName, callerFile, depth),
                resolveSimpleCallDi(calleeName, callerFile, callerFunction, 1, depth)))

\* resolver.ts:420-474 and :599-645: a class (or module) import, its module
\* resolved to targetPath: a method of the class, then a plain export
classViaModule(imp, targetPath, methodName, depth) ==
    IF targetPath # <<>>
    THEN OrElse(Lift(findClassMethod(targetPath, imp.importedName, methodName, {}, depth + 1),
                     "static-method"),
                Lift(findExport(targetPath, methodName, {}, depth + 1), "direct"))
    ELSE orExternal(imp.moduleSpecifier, imp.importedName \o <<".">> \o methodName)

\* resolver.ts:596-597
viaImport(imp, methodName, callerFile, depth) ==
    IF imp.tag = "null" THEN Null
    ELSE OrNull(classViaModule(imp.val,
                               resolveModule(imp.val.moduleSpecifier, callerFile.filePath),
                               methodName, depth))

\* Resolver.resolvePropertyCallViaImport
resolvePropertyCallViaImport(objectName, methodName, callerFile, depth) ==
    IF depth > MaxStack THEN Throw("RangeError")
    ELSE viaImport(findImport(callerFile, objectName), methodName, callerFile, depth)

\* resolver.ts:373-382 and :543-554: follow one DI default, (objectRef,
\* methodRef) through an import first, then localRef as a named call
followDi(di, callerFile, callerFunction, depth) ==
    OrElse(IF di.objectRef # <<>> /\ di.methodRef # <<>>
           THEN Relabel(resolvePropertyCallViaImport(di.objectRef, di.methodRef,
                                                     callerFile, depth + 1),
                        "di-default")
           ELSE Next_,
           IF di.localRef # <<>>
           THEN Relabel(resolveSimpleCall(di.localRef, callerFile, callerFunction, depth + 1),
                        "di-default")
           ELSE Next_)

RECURSIVE propertyDiDefaults(_, _, _, _, _, _)
\* resolver.ts:371-384, strategy 1: the caller's DI defaults
propertyDiDefaults(objectName, propertyName, callerFile, callerFunction, i, depth) ==
    IF i > Len(callerFunction.diDefaults) THEN Next_
    ELSE OrElse(IF callerFunction.diDefaults[i].paramName = objectName
                   /\ callerFunction.diDefaults[i].propName = propertyName
                THEN followDi(callerFunction.diDefaults[i], callerFile, callerFunction, depth)
                ELSE Next_,
                propertyDiDefaults(objectName, propertyName, callerFile, callerFunction,
                                   i + 1, depth))

\* resolver.ts:391-417: a namespace import, its module resolved to targetPath
namespaceViaModule(imp, targetPath, propertyName, depth) ==
    IF targetPath # <<>>
    THEN Lift(findExport(targetPath, propertyName, {}, depth + 1), "direct")
    ELSE orExternal(imp.moduleSpecifier, propertyName)

\* resolver.ts:388-475
propertyViaImport(imp, propertyName, callerFile, depth) ==
    IF imp.tag = "null" THEN Next_
    ELSE IF imp.val.isNamespace
    THEN namespaceViaModule(imp.val,
                            resolveModule(imp.val.moduleSpecifier, callerFile.filePath),
                            propertyName, depth)
    ELSE classViaModule(imp.val,
                        resolveModule(imp.val.moduleSpecifier, callerFile.filePath),
                        propertyName, depth)

\* resolver.ts:387-476, strategy 2: objectName is an import
propertyImport(objectName, propertyName, callerFile, depth) ==
    propertyViaImport(findImport(callerFile, objectName), propertyName, callerFile, depth)

\* resolver.ts:480-504: the class an instance binding names
instanceOf(className, propertyName, callerFile, depth) ==
    IF className = <<>> THEN Next_
    ELSE OrElse(Relabel(resolvePropertyCallViaImport(className, propertyName,
                                                     callerFile, depth + 1),
                        "instance-method"),
                localHit(findFunction(callerFile, className \o <<".">> \o propertyName),
                         callerFile.filePath, className \o <<".">> \o propertyName,
                         "instance-method"))

\* resolver.ts:479-504, strategy 2b: instance bindings.  Reading a property
\* of `callerFile.instanceBindings` throws TypeError when the parsed file
\* has no such property.
propertyInstance(objectName, propertyName, callerFile, depth) ==
    IF "instanceBindings" \notin DOMAIN callerFile THEN Throw("TypeError")
    ELSE instanceOf(MapGet(callerFile.instanceBindings, objectName), propertyName,
                    callerFile, depth)

\* resolver.ts:507-525, strategy 3: a class of the same file
propertyLocalClass(objectName, propertyName, callerFile) ==
    localHit(findFunction(callerFile, objectName \o <<".">> \o propertyName),
             callerFile.filePath, objectName \o <<".">> \o propertyName, "static-method")

\* resolver.ts:539-555: the constructor's DI default for the field's source
fieldDi(di, callerFile, callerFunction, depth) ==
    IF di.tag = "some" THEN followDi(di.val, callerFile, callerFunction, depth) ELSE Next_

\* resolver.ts:535-560
fieldAssignment(fa, ctor, callerFile, callerFunction, depth) ==
    IF fa.tag = "null" THEN Next_
    ELSE OrElse(IF fa.val.paramName # <<>> /\ fa.val.propName # <<>>
                THEN fieldDi(Find(ctor.diDefaults,
                                  {i \in 1..Len(ctor.diDefaults) :
                                      /\ ctor.diDefaults[i].paramName = fa.val.paramName
                                      /\ ctor.diDefaults[i].propName = fa.val.propName}),
                             callerFile, callerFunction, depth)
                ELSE Next_,
                IF fa.val.localRef # <<>>
                THEN Relabel(resolveSimpleCall(fa.val.localRef, callerFile, callerFunction,
                                               depth + 1),
                             "di-default")
                ELSE Next_)

\* resolver.ts:533-534
ctorField(ctor, propertyName, callerFile, callerFunction, depth) ==
    IF ctor.tag = "null" THEN Next_
    ELSE fieldAssignment(Find(ctor.val.fieldAssignments,
                              {i \in 1..Len(ctor.val.fieldAssignments) :
                                  ctor.val.fieldAssignments[i].fieldName = propertyName}),
                         ctor.val, callerFile, callerFunction, depth)

\* resolver.ts:530-563, strategy 3b: constructor field assignments
propertyCtorField(objectName, propertyName, callerFile, callerFunction, depth) ==
    ctorField(findFunction(callerFile, objectName \o <<".">> \o <<"constructor">>),
              propertyName, callerFile, callerFunction, depth)

\* resolver.ts:567-586
bindingHit(binding, qualifiedName, callerFile) ==
    IF binding # <<>> /\ binding # qualifiedName
    THEN localHit(findFunction(callerFile, binding), callerFile.filePath, binding,
                  "static-method")
    ELSE Next_

\* resolver.ts:566-586, strategy 4: object property bindings
propertyBinding(objectName, propertyName, callerFile) ==
    bindingHit(MapGet(callerFile.objectPropertyBindings,
                      objectName \o <<".">> \o propertyName),
               objectName \o <<".">> \o propertyName, callerFile)

\* Resolver.resolvePropertyCall
resolvePropertyCall(objectName, propertyName, callerFile, callerFunction, depth) ==
    IF depth > MaxStack THEN Throw("RangeError")
    ELSE OrNull(
         OrElse(propertyDiDefaults(objectName, propertyName, callerFile, callerFunction,
                                   1, depth),
         OrElse(propertyImport(objectName, propertyName, callerFile, depth),
         OrElse(propertyInstance(objectName, propertyName, callerFile, depth),
         OrElse(propertyLocalClass(objectName, propertyName, callerFile),
         OrElse(propertyCtorField(objectName, propertyName, callerFile, callerFunction,
                                  depth),
                propertyBinding(objectName, propertyName, callerFile)))))))

\* Resolver.resolveCallSite
resolveCallSite(callSite, callerFile, callerFunction, depth) ==
    IF callSite.calleeName # <<>>
    THEN resolveSimpleCall(callSite.calleeName, callerFile, callerFunction, depth + 1)
    ELSE IF callSite.objectName # <<>> /\ callSite.propertyName # <<>>
    THEN resolvePropertyCall(callSite.objectName, callSite.propertyName,
                             callerFile, callerFunction, depth + 1)
    ELSE Null

\* `if (fn) return { qualifiedName, fn }`
named(fn, qualifiedName) ==
    IF fn.tag = "some" THEN [tag |-> "some", qualifiedName |-> qualifiedName, fn |-> fn.val]
    ELSE Null

\* resolver.ts:146-150, the binding fallback
namedBinding(file, binding) ==
    IF binding # <<>> THEN named(findFunction(file, binding), binding) ELSE Null

\* resolver.ts:139-152, on the parsed file
qualifiedIn(file, qualifiedName) ==
    IF file.tag = "null" THEN Null
    ELSE OrIfNull(named(findFunction(file.val, qualifiedName), qualifiedName),
                  namedBinding(file.val,
                               MapGet(file.val.objectPropertyBindings, qualifiedName)))

\* Resolver.resolveQualifiedName
resolveQualifiedName(filePath, qualifiedName) ==
    qualifiedIn(getFile(filePath), qualifiedName)

----------------------------------------------------------------------------
(* types.ts: the graph.  `nodes` is a Map in insertion order, modelled as  *)
(* the sequence of its values; forwardEdges and reverseEdges are Maps from *)
(* an id to the sequence of its edges.                                     *)

createEmptyGraph ==
    [nodes |-> <<>>, forwardEdges |-> <<>>, reverseEdges |-> <<>>, edges |-> <<>>]

\* graph.nodes.has(id)
nodesHas(g, id) == \E i \in 1..Len(g.nodes) : g.nodes[i].id = id

\* the keys of graph.nodes
nodeIds(g) == {g.nodes[i].id : i \in 1..Len(g.nodes)}

\* graph.nodes.get(id), for an id the map has
nodesGet(g, id) == g.nodes[CHOOSE i \in 1..Len(g.nodes) : g.nodes[i].id = id]

\* addNode with its test inverted: a new node is not added
addNodeInverted(g, node) ==
    IF nodesHas(g, node.id) THEN [g EXCEPT !.nodes = Append(@, node)] ELSE g

addNode(g, node) ==
    IF ~nodesHas(g, node.id) THEN [g EXCEPT !.nodes = Append(@, node)] ELSE g

\* `let fwd = map.get(k); if (!fwd) { fwd = []; map.set(k, fwd) } fwd.push(edge)`
pushTo(map, k, edge) ==
    IF k \in DOMAIN map THEN [map EXCEPT ![k] = Append(@, edge)]
    ELSE (k :> <<edge>>) @@ map

addEdge(g, edge) ==
    [g EXCEPT !.edges = Append(@, edge),
              !.forwardEdges = pushTo(@, edge.callerId, edge),
              !.reverseEdges = pushTo(@, edge.calleeId, edge)]

\* graph.ts:312 / :342, the key of an edge
edgeKey(callerId, calleeId) == callerId \o <<"->">> \o calleeId

----------------------------------------------------------------------------
(* graph.ts: mergeGraphs and sliceGraph *)

RECURSIVE addNodes(_, _, _)
\* `for (const [, node] of g.nodes) addNode(merged, node)`
addNodes(merged, nodes, i) ==
    IF i > Len(nodes) THEN merged
    ELSE addNodes(addNode(merged, nodes[i]), nodes, i + 1)

\* isNewEdgeKey without the set of keys: every edge of every input is kept
edgeKeyAlwaysNew(keys, key) == TRUE

\* graph.ts:343, `!edgeKeys.has(key)`
isNewEdgeKey(keys, key) == key \notin keys

RECURSIVE mergeEdges(_, _, _)
\* graph.ts:341-347: st = [merged, edgeKeys]
mergeEdges(st, edges, i) ==
    IF i > Len(edges) THEN st
    ELSE LET edge == edges[i]
             key == edgeKey(edge.callerId, edge.calleeId)
         IN IF isNewEdgeKey(st.edgeKeys, key)
            THEN mergeEdges([merged |-> addEdge(st.merged, edge),
                             edgeKeys |-> st.edgeKeys \cup {key}], edges, i + 1)
            ELSE mergeEdges(st, edges, i + 1)

RECURSIVE mergeFrom(_, _, _)
mergeFrom(st, graphs, i) ==
    IF i > Len(graphs) THEN st
    ELSE mergeFrom(mergeEdges([st EXCEPT !.merged = addNodes(@, graphs[i].nodes, 1)],
                              graphs[i].edges, 1),
                   graphs, i + 1)

mergeGraphs(graphs) ==
    mergeFrom([merged |-> createEmptyGraph, edgeKeys |-> {}], graphs, 1).merged

\* the ids of `ids` that are nodes of the graph, in order (the seeds of a walk)
RECURSIVE seeds(_, _, _)
seeds(g, ids, i) ==
    IF i > Len(ids) THEN <<>>
    ELSE IF nodesHas(g, ids[i]) THEN <<ids[i]>> \o seeds(g, ids, i + 1)
    ELSE seeds(g, ids, i + 1)

RECURSIVE seqToSet(_)
seqToSet(s) == IF s = <<>> THEN {} ELSE {Head(s)} \cup seqToSet(Tail(s))

RECURSIVE walkEdges(_, _, _, _)
\* the inner loop of a walk: st = [reachable, queue]; `end` names the far end
\* of an edge, "callerId" or "calleeId".  `reachable` is a Set in insertion
\* order, modelled as a sequence.
walkEdges(st, end, edges, i) ==
    IF i > Len(edges) THEN st
    ELSE IF edges[i][end] \notin seqToSet(st.reachable)
    THEN walkEdges([reachable |-> Append(st.reachable, edges[i][end]),
                    queue |-> Append(st.queue, edges[i][end])], end, edges, i + 1)
    ELSE walkEdges(st, end, edges, i + 1)

RECURSIVE walk(_, _, _)
\* `while (queue.length > 0) { current = queue.shift(); ... }` over `adjacency`
walk(st, end, adjacency) ==
    IF st.queue = <<>> THEN st.reachable
    ELSE LET current == Head(st.queue)
             rest == [st EXCEPT !.queue = Tail(@)]
         IN IF current \notin DOMAIN adjacency THEN walk(rest, end, adjacency)
            ELSE walk(walkEdges(rest, end, adjacency[current], 1), end, adjacency)

\* both the set and the queue start as the seeds
walkFrom(start, end, adjacency) ==
    walk([reachable |-> start, queue |-> start], end, adjacency)

\* graph.ts backwardReachable
backwardReachable(g, targets) ==
    walkFrom(seeds(g, targets, 1), "callerId", g.reverseEdges)

\* graph.ts:396-414, the forward walk of sliceGraph
forwardReachable(g, sources) ==
    walkFrom(seeds(g, sources, 1), "calleeId", g.forwardEdges)

\* inBoth without the backward walk: every forward-reachable node is kept
inForwardOnly(back, id) == TRUE

\* graph.ts:419, `backReachable.has(id)`
inBoth(back, id) == id \in seqToSet(back)

RECURSIVE intersect(_, _, _)
\* graph.ts:417-420: the ids of fwd that back has, in the order of fwd
intersect(fwd, back, i) ==
    IF i > Len(fwd) THEN <<>>
    ELSE IF inBoth(back, fwd[i]) THEN <<fwd[i]>> \o intersect(fwd, back, i + 1)
    ELSE intersect(fwd, back, i + 1)

keepNodes(g, sources, targets) ==
    intersect(forwardReachable(g, sources), backwardReachable(g, targets), 1)

RECURSIVE sliceNodes(_, _, _, _)
\* graph.ts:424-427
sliceNodes(sliced, g, keep, i) ==
    IF i > Len(keep) THEN sliced
    ELSE sliceNodes(addNode(sliced, nodesGet(g, keep[i])), g, keep, i + 1)

\* keepsEdge with one kept end being enough
keepsEdgeEitherEnd(keep, edge) ==
    edge.callerId \in seqToSet(keep) \/ edge.calleeId \in seqToSet(keep)

\* graph.ts:429, the test of an edge of the induced subgraph
keepsEdge(keep, edge) ==
    edge.callerId \in seqToSet(keep) /\ edge.calleeId \in seqToSet(keep)

RECURSIVE sliceEdges(_, _, _, _)
\* graph.ts:428-432
sliceEdges(sliced, g, keep, i) ==
    IF i > Len(g.edges) THEN sliced
    ELSE IF keepsEdge(keep, g.edges[i])
    THEN sliceEdges(addEdge(sliced, g.edges[i]), g, keep, i + 1)
    ELSE sliceEdges(sliced, g, keep, i + 1)

\* graph.ts:422-434
induced(g, keep) == sliceEdges(sliceNodes(createEmptyGraph, g, keep, 1), g, keep, 1)

sliceGraph(g, sources, targets) == induced(g, keepNodes(g, sources, targets))

----------------------------------------------------------------------------
(* The inputs of a build: a repository of two files.                       *)
(*                                                                         *)
(*   a.ts  import { h, K } from './b'; import { ext } from 'lib';          *)
(*         import * as ns from 'dep';                                      *)
(*         export function main(deps = { k: h }) { <mainCalls> }           *)
(*         export function g() { <gCalls> }                                *)
(*         export const Api = { run: main };                               *)
(*         class Agent {                                                   *)
(*           constructor(deps = { k: h }) { this._k = deps.k; }            *)
(*           run() { this._k(); }                                          *)
(*         }                                                               *)
(*   b.ts  import { main } from './a';                                     *)
(*         export function h() { <hCalls> }                                *)
(*         export class K { static m() {} }                                *)

A == <<"a", ".ts">>
B == <<"b", ".ts">>

Named(name) == [calleeName |-> <<name>>, objectName |-> <<>>, propertyName |-> <<>>]
Member(obj, prop) == [calleeName |-> <<>>, objectName |-> <<obj>>, propertyName |-> <<prop>>]

\* the call sites of a function declared on line `base`, one per line
CallSites(shapes, base) ==
    [i \in 1..Len(shapes) |-> [calleeName |-> shapes[i].calleeName,
                               objectName |-> shapes[i].objectName,
                               propertyName |-> shapes[i].propertyName,
                               line |-> base + i]]

Fn(qualifiedName, line, shapes, diDefaults) ==
    [qualifiedName |-> qualifiedName, line |-> line, isInstrumented |-> FALSE,
     callSites |-> CallSites(shapes, line), diDefaults |-> diDefaults,
     fieldAssignments |-> <<>>]

Import(localName, importedName, moduleSpecifier, isNamespace) ==
    [localName |-> <<localName>>, importedName |-> <<importedName>>,
     moduleSpecifier |-> moduleSpecifier, isNamespace |-> isNamespace]

DiLocal(paramName, propName, localRef) ==
    [paramName |-> <<paramName>>, propName |-> <<propName>>, localRef |-> <<localRef>>,
     objectRef |-> <<>>, methodRef |-> <<>>]

SeqsUpTo(S, n) == UNION {[1..k -> S] : k \in 0..n}

MainShapes ==
    {Named("g"), Named("h"), Named("ext"), Member("deps", "k"), Member("console", "log")}
\* the bodies of g and h: <<gCalls, hCalls>>
Bodies ==
    {<< <<>>, <<>> >>,
     << <<Named("h")>>, <<Named("h"), Named("main")>> >>,
     << <<Named("g"), Member("K", "m")>>, <<>> >>,
     << <<Named("nope"), Member("ns", "x")>>, <<>> >>}

FileA(mainCalls, gCalls) ==
    [readable |-> TRUE,
     functions |-> <<Fn(<<"main">>, 10, mainCalls, <<DiLocal("deps", "k", "h")>>),
                     Fn(<<"g">>, 20, gCalls, <<>>),
                     Fn(<<"Agent", ".", "constructor">>, 30, <<>>,
                        <<DiLocal("deps", "k", "h")>>),
                     Fn(<<"Agent", ".", "run">>, 40, <<Member("Agent", "_k")>>, <<>>)>>,
     imports |-> <<Import("h", "h", <<".", "/", "b">>, FALSE),
                   Import("K", "K", <<".", "/", "b">>, FALSE),
                   Import("ext", "ext", <<"lib">>, FALSE),
                   Import("ns", "*", <<"dep">>, TRUE)>>,
     reExports |-> <<>>,
     exportedNames |-> (<<"main">> :> <<"main">>) @@ (<<"g">> :> <<"g">>),
     objectPropertyBindings |-> (<<"Api", ".", "run">> :> <<"main">>)]

FileB(hCalls) ==
    [readable |-> TRUE,
     functions |-> <<Fn(<<"h">>, 10, hCalls, <<>>),
                     Fn(<<"K", ".", "m">>, 20, <<>>, <<>>)>>,
     imports |-> <<Import("main", "main", <<".", "/", "a">>, FALSE)>>,
     reExports |-> <<>>,
     exportedNames |-> (<<"h">> :> <<"h">>) @@ (<<"K">> :> <<"K">>),
     objectPropertyBindings |-> <<>>]

\* b.ts is "ok", "unreadable" (it exists and parseFile throws) or "missing"
Repo(mainCalls, gCalls, hCalls, bState) ==
    IF bState = "missing" THEN (A :> FileA(mainCalls, gCalls))
    ELSE (A :> FileA(mainCalls, gCalls))
         @@ (B :> [FileB(hCalls) EXCEPT !.readable = (bState = "ok")])

Repos ==
    {Repo(m, gh[1], gh[2], "ok") : m \in SeqsUpTo(MainShapes, MaxCallSites), gh \in Bodies}
    \cup {Repo(<<c>>, <<>>, <<>>, b) : c \in MainShapes, b \in {"missing", "unreadable"}}

SourceLists ==
    {<<makeFunctionId(A, <<"main">>)>>,
     <<makeFunctionId(A, <<"Api", ".", "run">>), makeFunctionId(A, <<"g">>)>>,
     <<makeFunctionId(A, <<"Agent", ".", "run">>)>>}

TargetLists == {<<makeFunctionId(B, <<"h">>)>>}

NoArg == [tag |-> "none"]

----------------------------------------------------------------------------
(* The build (cli.ts:199-241): forwardBfs from each source, mergeGraphs,   *)
(* sliceGraph.  forwardBfs runs one step per queue entry and per call site. *)

Init ==
    /\ files \in Repos
    /\ includeExternal \in BOOLEAN
    /\ options \in [maxDepth : 0..MaxDepthBound, maxNodes : 0..MaxNodesBound]
    /\ sourceIds \in SourceLists
    /\ targetIds \in TargetLists
    /\ srcIdx = 1
    /\ pc = "start"
    /\ graph = createEmptyGraph
    /\ queue = <<>>
    /\ visited = {}
    /\ edgeKeys = {}
    /\ cur = [id |-> <<>>, depth |-> 0, i |-> 0]
    /\ depthOf = <<>>
    /\ bfsGraphs = <<>>
    /\ fullGraph = createEmptyGraph
    /\ outputGraph = createEmptyGraph
    /\ arg = NoArg
    /\ out = NoArg

inputs == <<files, includeExternal, options, sourceIds, targetIds, arg, out>>

\* atMaxDepth with the comparison off by one
atMaxDepthOffByOne(depth) == depth > options.maxDepth

\* graph.ts:279, `depth >= options.maxDepth`
atMaxDepth(depth) == depth >= options.maxDepth

\* graph.ts:280, `graph.nodes.size >= options.maxNodes`
nodeLimitReached(g) == Len(g.nodes) >= options.maxNodes

\* edgeIsNew without the set of keys: every edge is added
edgeAlwaysNew(keys, key) == TRUE

\* graph.ts:313, `!edgeKeys.has(edgeKey)`
edgeIsNew(keys, key) == key \notin keys

\* graph.ts:307, `targetId === currentId`
isSelfLoop(targetId, currentId) == targetId = currentId

\* graph.ts:252-274: the start node, the queue and the sets
startTraversal(sourceId, filePath, qualifiedName, resolved) ==
    LET resolvedSourceId ==
            IF resolved.qualifiedName # qualifiedName
            THEN makeFunctionId(filePath, resolved.qualifiedName)
            ELSE sourceId
    IN /\ pc' = "loop"
       /\ graph' = addNode(createEmptyGraph,
                           [id |-> resolvedSourceId,
                            filePath |-> filePath,
                            qualifiedName |-> resolved.qualifiedName,
                            line |-> resolved.fn.line,
                            isInstrumented |-> resolved.fn.isInstrumented,
                            isExternal |-> FALSE])
       /\ queue' = <<[id |-> resolvedSourceId, depth |-> 0]>>
       /\ visited' = {resolvedSourceId}
       /\ edgeKeys' = {}
       /\ depthOf' = (resolvedSourceId :> 0)

\* graph.ts:230-250: the source file and the source function
startFrom(sourceId, parsed, file, resolved) ==
    IF parsed.tag = "throw"
    THEN /\ pc' = "threw"
         /\ UNCHANGED <<graph, queue, visited, edgeKeys, depthOf>>
    ELSE IF file.tag = "null" \/ resolved.tag = "null"
    THEN /\ pc' = "return"
         /\ graph' = createEmptyGraph
         /\ queue' = <<>>
         /\ visited' = {}
         /\ edgeKeys' = {}
         /\ depthOf' = <<>>
    ELSE startTraversal(sourceId, parsed.filePath, parsed.qualifiedName, resolved)

\* graph.ts:225-274: forwardBfs up to the loop
BfsStart ==
    /\ pc = "start"
    /\ startFrom(sourceIds[srcIdx],
                 parseFunctionId(sourceIds[srcIdx]),
                 getFile(parseFunctionId(sourceIds[srcIdx]).filePath),
                 resolveQualifiedName(parseFunctionId(sourceIds[srcIdx]).filePath,
                                      parseFunctionId(sourceIds[srcIdx]).qualifiedName))
    /\ UNCHANGED <<inputs, srcIdx, cur, bfsGraphs, fullGraph, outputGraph>>

\* graph.ts:287-288
curFileOf(id) == getFile(parseFunctionId(id).filePath)

\* graph.ts:291
curFnIn(curFile, id) ==
    IF curFile.tag = "null" THEN Null
    ELSE findFunction(curFile.val, parseFunctionId(id).qualifiedName)

\* graph.ts:277-298
dequeued(head, parsed, curFile, curFn) ==
    IF atMaxDepth(head.depth)
    THEN pc' = "loop" /\ UNCHANGED cur
    ELSE IF nodeLimitReached(graph)
    THEN pc' = "return" /\ UNCHANGED cur
    ELSE IF parsed.tag = "throw"
    THEN pc' = "threw" /\ UNCHANGED cur
    ELSE IF curFile.tag = "null"
    THEN pc' = "loop" /\ UNCHANGED cur
    ELSE IF curFn.tag = "null"
    THEN pc' = "loop" /\ UNCHANGED cur
    ELSE IF curFn.val.callSites = <<>>
    THEN pc' = "loop" /\ UNCHANGED cur
    ELSE /\ pc' = "callsites"
         /\ cur' = [id |-> head.id, depth |-> head.depth, i |-> 1]

\* graph.ts:276-298: dequeue one entry and find its function
BfsDequeue ==
    /\ pc = "loop"
    /\ queue # <<>>
    /\ queue' = Tail(queue)
    /\ dequeued(Head(queue), parseFunctionId(Head(queue).id), curFileOf(Head(queue).id),
                curFnIn(curFileOf(Head(queue).id), Head(queue).id))
    /\ UNCHANGED <<inputs, srcIdx, graph, visited, edgeKeys, depthOf, bfsGraphs,
                   fullGraph, outputGraph>>

\* withTarget with the two ends of the edge exchanged
withTargetReversed(g, keys, key, currentId, resolved, callSite) ==
    IF edgeIsNew(keys, key)
    THEN addEdge(addNode(g, resolved.targetNode),
                 [callerId |-> resolved.targetId,
                  calleeId |-> currentId,
                  kind |-> resolved.kind,
                  callLine |-> callSite.line])
    ELSE addNode(g, resolved.targetNode)

\* graph.ts:309-321: the node, and the edge unless its key was seen
withTarget(g, keys, key, currentId, resolved, callSite) ==
    IF edgeIsNew(keys, key)
    THEN addEdge(addNode(g, resolved.targetNode),
                 [callerId |-> currentId,
                  calleeId |-> resolved.targetId,
                  kind |-> resolved.kind,
                  callLine |-> callSite.line])
    ELSE addNode(g, resolved.targetNode)

\* graph.ts:301-326: what one call site does, given its resolution
callSiteStep(callSite, last, resolved) ==
    IF resolved.tag = "throw"
    THEN /\ pc' = "threw"
         /\ UNCHANGED <<graph, queue, visited, edgeKeys, depthOf, cur>>
    ELSE /\ pc' = IF last THEN "loop" ELSE "callsites"
         /\ cur' = [cur EXCEPT !.i = @ + 1]
         /\ IF resolved.tag = "null"
            THEN UNCHANGED <<graph, queue, visited, edgeKeys, depthOf>>
            ELSE IF isSelfLoop(resolved.targetId, cur.id)
            THEN UNCHANGED <<graph, queue, visited, edgeKeys, depthOf>>
            ELSE /\ graph' = withTarget(graph, edgeKeys, edgeKey(cur.id, resolved.targetId),
                                        cur.id, resolved, callSite)
                 /\ edgeKeys' = edgeKeys \cup {edgeKey(cur.id, resolved.targetId)}
                 /\ IF resolved.targetId \notin visited
                    THEN /\ visited' = visited \cup {resolved.targetId}
                         /\ queue' = Append(queue, [id |-> resolved.targetId,
                                                    depth |-> cur.depth + 1])
                         /\ depthOf' = (resolved.targetId :> cur.depth + 1) @@ depthOf
                    ELSE UNCHANGED <<visited, queue, depthOf>>

\* the function being expanded and its file
curFile == curFileOf(cur.id).val
curFn == curFnIn(curFileOf(cur.id), cur.id).val

\* graph.ts:300-327: one iteration of the loop over curFn.callSites
BfsCallSite ==
    /\ pc = "callsites"
    /\ callSiteStep(curFn.callSites[cur.i], cur.i = Len(curFn.callSites),
                    resolveCallSite(curFn.callSites[cur.i], curFile, curFn, 1))
    /\ UNCHANGED <<inputs, srcIdx, bfsGraphs, fullGraph, outputGraph>>

\* graph.ts:330 and cli.ts:199-201: the traversal returns its graph
BfsReturn ==
    /\ pc = "return" \/ (pc = "loop" /\ queue = <<>>)
    /\ bfsGraphs' = Append(bfsGraphs, graph)
    /\ IF srcIdx < Len(sourceIds)
       THEN srcIdx' = srcIdx + 1 /\ pc' = "start"
       ELSE srcIdx' = srcIdx /\ pc' = "merge"
    /\ UNCHANGED <<inputs, graph, queue, visited, edgeKeys, cur, depthOf,
                   fullGraph, outputGraph>>

\* cli.ts:202
Merge ==
    /\ pc = "merge"
    /\ fullGraph' = IF Len(bfsGraphs) = 1 THEN bfsGraphs[1] ELSE mergeGraphs(bfsGraphs)
    /\ pc' = "slice"
    /\ UNCHANGED <<inputs, srcIdx, graph, queue, visited, edgeKeys, cur, depthOf,
                   bfsGraphs, outputGraph>>

\* cli.ts:233-241: slice unless no target was reached
sliceIfReached(g, sources, reachableTargets) ==
    IF reachableTargets # <<>> THEN sliceGraph(g, sources, reachableTargets) ELSE g

\* cli.ts:210-241
Slice ==
    /\ pc = "slice"
    /\ outputGraph' = sliceIfReached(fullGraph, sourceIds, seeds(fullGraph, targetIds, 1))
    /\ pc' = "done"
    /\ UNCHANGED <<inputs, srcIdx, graph, queue, visited, edgeKeys, cur, depthOf,
                   bfsGraphs, fullGraph>>

Next == BfsStart \/ BfsDequeue \/ BfsCallSite \/ BfsReturn \/ Merge \/ Slice

Spec == Init /\ [][Next]_vars

----------------------------------------------------------------------------
(* sliceGraph and mergeGraphs on the graphs addNode and addEdge build.     *)
(* arg = [edges, sources, targets]: the graph has the nodes A, B and C of  *)
(* f.ts and the edges `edges`, the k-th of them with call line k.          *)

NodeA == <<"f", ".ts", "::", "A">>
NodeB == <<"f", ".ts", "::", "B">>
NodeC == <<"f", ".ts", "::", "C">>
Absent == <<"f", ".ts", "::", "X">>
SliceNodes == <<NodeA, NodeB, NodeC>>

\* graph.test.ts makeNode; `id.split("::")` of an id with one separator
makeNode(id, line) ==
    [id |-> id,
     filePath |-> parseFunctionId(id).filePath,
     qualifiedName |-> parseFunctionId(id).qualifiedName,
     line |-> line,
     isInstrumented |-> FALSE]

\* graph.test.ts makeEdge
makeEdge(callerId, calleeId, line) ==
    [callerId |-> callerId, calleeId |-> calleeId, kind |-> "direct", callLine |-> line]

RECURSIVE withNodes(_, _, _, _)
withNodes(g, ids, line, i) ==
    IF i > Len(ids) THEN g
    ELSE withNodes(addNode(g, makeNode(ids[i], line)), ids, line, i + 1)

RECURSIVE withEdges(_, _, _, _)
\* the edges pairs[i..j] added in order, the k-th pair with call line k
withEdges(g, pairs, i, j) ==
    IF i > j THEN g
    ELSE withEdges(addEdge(g, makeEdge(pairs[i][1], pairs[i][2], i)), pairs, i + 1, j)

\* the graph of the tests: the three nodes, then the edges pairs[i..j]
graphOf(pairs, i, j, line) ==
    withEdges(withNodes(createEmptyGraph, SliceNodes, line, 1), pairs, i, j)

EdgePairs == {<<a, b>> : a \in seqToSet(SliceNodes), b \in seqToSet(SliceNodes)}

InitGraph ==
    /\ arg \in [edges : SeqsUpTo(EdgePairs, MaxEdges),
                sources : {<<Absent, NodeA>>, <<NodeB, NodeA>>},
                targets : {<<NodeC>>, <<NodeA, NodeC, Absent>>}]
    /\ out = NoArg
    /\ files = <<>>
    /\ includeExternal = FALSE
    /\ options = [maxDepth |-> 0, maxNodes |-> 0]
    /\ sourceIds = <<>>
    /\ targetIds = <<>>
    /\ srcIdx = 1
    /\ pc = "graph"
    /\ graph = createEmptyGraph
    /\ queue = <<>>
    /\ visited = {}
    /\ edgeKeys = {}
    /\ cur = [id |-> <<>>, depth |-> 0, i |-> 0]
    /\ depthOf = <<>>
    /\ bfsGraphs = <<>>
    /\ fullGraph = createEmptyGraph
    /\ outputGraph = createEmptyGraph

build == <<files, includeExternal, options, sourceIds, targetIds, srcIdx, pc, graph,
           queue, visited, edgeKeys, cur, depthOf, bfsGraphs, fullGraph, outputGraph>>

\* sliceGraph(graph, sourceIds, targetIds)
ApplySlice ==
    /\ pc = "graph"
    /\ out.tag = "none"
    /\ out' = [tag |-> "sliced",
               input |-> graphOf(arg.edges, 1, Len(arg.edges), 1),
               val |-> sliceGraph(graphOf(arg.edges, 1, Len(arg.edges), 1),
                                  arg.sources, arg.targets)]
    /\ UNCHANGED <<build, arg>>

RECURSIVE withCalls(_, _, _, _, _)
\* graph.test.ts:175-178: the caller, the callee and the edge of each of
\* pairs[i..j], the nodes with line `line`, the k-th edge with call line k
withCalls(g, pairs, i, j, line) ==
    IF i > j THEN g
    ELSE withCalls(addEdge(addNode(addNode(g, makeNode(pairs[i][1], line)),
                                   makeNode(pairs[i][2], line)),
                           makeEdge(pairs[i][1], pairs[i][2], i)),
                   pairs, i + 1, j, line)

\* mergeGraphs([g1, g2]): g1 has the first k edges and their nodes, g2 the
\* others and theirs; the nodes of g1 have line 1, those of g2 line 2
ApplyMerge ==
    /\ pc = "graph"
    /\ out.tag = "none"
    /\ \E k \in 0..Len(arg.edges) :
           out' = [tag |-> "merged",
                   inputs |-> <<withCalls(createEmptyGraph, arg.edges, 1, k, 1),
                                withCalls(createEmptyGraph, arg.edges, k + 1,
                                          Len(arg.edges), 2)>>,
                   val |-> mergeGraphs(<<withCalls(createEmptyGraph, arg.edges, 1, k, 1),
                                         withCalls(createEmptyGraph, arg.edges, k + 1,
                                                   Len(arg.edges), 2)>>)]
    /\ UNCHANGED <<build, arg>>

NextGraph == ApplySlice \/ ApplyMerge

SpecGraph == InitGraph /\ [][NextGraph]_vars

----------------------------------------------------------------------------
(* findExport and findClassMethod on files that re-export from each other. *)
(*                                                                         *)
(*   p.ts  <re-exports of x and y from './q' and './gone'>                 *)
(*   q.ts  <re-exports of x and y from './p'>                              *)
(*         export function y() {}  export class x { static m() {} }        *)

P == <<"p", ".ts">>
Q == <<"q", ".ts">>

ReExport(exportedName, importedName, moduleSpecifier) ==
    [exportedName |-> <<exportedName>>, importedName |-> <<importedName>>,
     moduleSpecifier |-> moduleSpecifier]

ExportNames == {"x", "y"}

ReExportsOfP ==
    {ReExport(e, i, <<".", "/", "q">>) : e \in ExportNames, i \in ExportNames}
    \cup {ReExport("x", "x", <<".", "/", "gone">>)}
ReExportsOfQ ==
    {ReExport("x", "x", <<".", "/", "p">>), ReExport("y", "x", <<".", "/", "p">>)}

\* `export { a as b } from 'mod'` also maps b -> b in exportedNames
reExportedNames(reExports) ==
    [n \in {reExports[i].exportedName : i \in 1..Len(reExports)} |-> n]

FileP(reExports) ==
    [readable |-> TRUE,
     functions |-> <<>>,
     imports |-> <<>>,
     reExports |-> reExports,
     exportedNames |-> reExportedNames(reExports),
     objectPropertyBindings |-> <<>>]

FileQ(reExports) ==
    [readable |-> TRUE,
     functions |-> <<Fn(<<"y">>, 10, <<>>, <<>>), Fn(<<"x", ".", "m">>, 20, <<>>, <<>>)>>,
     imports |-> <<>>,
     reExports |-> reExports,
     exportedNames |-> reExportedNames(reExports) @@ (<<"y">> :> <<"y">>) @@ (<<"x">> :> <<"x">>),
     objectPropertyBindings |-> <<>>]

InitExport ==
    /\ files \in {(P :> FileP(rp)) @@ (Q :> FileQ(rq)) :
                     rp \in SeqsUpTo(ReExportsOfP, MaxReExports),
                     rq \in SeqsUpTo(ReExportsOfQ, MaxReExports)}
    /\ arg = NoArg
    /\ out = NoArg
    /\ includeExternal = FALSE
    /\ options = [maxDepth |-> 0, maxNodes |-> 0]
    /\ sourceIds = <<>>
    /\ targetIds = <<>>
    /\ srcIdx = 1
    /\ pc = "export"
    /\ graph = createEmptyGraph
    /\ queue = <<>>
    /\ visited = {}
    /\ edgeKeys = {}
    /\ cur = [id |-> <<>>, depth |-> 0, i |-> 0]
    /\ depthOf = <<>>
    /\ bfsGraphs = <<>>
    /\ fullGraph = createEmptyGraph
    /\ outputGraph = createEmptyGraph

\* findExport(filePath, exportedName), as resolveSimpleCall calls it
ApplyFindExport ==
    /\ pc = "export"
    /\ arg.tag = "none"
    /\ \E f \in {P, Q}, n \in ExportNames :
          /\ arg' = [tag |-> "findExport", filePath |-> f, exportedName |-> <<n>>]
          /\ out' = findExport(f, <<n>>, {}, 1)
    /\ UNCHANGED build

\* findClassMethod(filePath, exportedName, "m"), as resolvePropertyCall calls it
ApplyFindClassMethod ==
    /\ pc = "export"
    /\ arg.tag = "none"
    /\ \E f \in {P, Q}, n \in ExportNames :
          /\ arg' = [tag |-> "findClassMethod", filePath |-> f, exportedName |-> <<n>>]
          /\ out' = findClassMethod(f, <<n>>, <<"m">>, {}, 1)
    /\ UNCHANGED build

NextExport == ApplyFindExport \/ ApplyFindClassMethod

SpecExport == InitExport /\ [][NextExport]_vars

----------------------------------------------------------------------------
(* resolveSimpleCall on a function with DI defaults.                       *)
(*                                                                         *)
(*   a.ts  import { h } from './b';                                        *)
(*         export function main(p = { k1: <ref>, k2: <ref> }) { callee() } *)
(*         export function g() {}                                          *)
(* The references and the callee are g (local), h (imported), and a and b  *)
(* (declared nowhere the resolver looks).                                  *)

RefNames == {"g", "h", "a", "b"}

DiLists == SeqsUpTo({DiLocal("p", k, r) : k \in {"k"}, r \in RefNames}, MaxDi)

InitResolve ==
    /\ files = Repo(<<>>, <<>>, <<>>, "ok")
    /\ arg \in [tag : {"resolveSimpleCall"}, calleeName : {<<r>> : r \in RefNames},
                diDefaults : DiLists]
    /\ out = NoArg
    /\ includeExternal = FALSE
    /\ options = [maxDepth |-> 0, maxNodes |-> 0]
    /\ sourceIds = <<>>
    /\ targetIds = <<>>
    /\ srcIdx = 1
    /\ pc = "resolve"
    /\ graph = createEmptyGraph
    /\ queue = <<>>
    /\ visited = {}
    /\ edgeKeys = {}
    /\ cur = [id |-> <<>>, depth |-> 0, i |-> 0]
    /\ depthOf = <<>>
    /\ bfsGraphs = <<>>
    /\ fullGraph = createEmptyGraph
    /\ outputGraph = createEmptyGraph

\* resolveSimpleCall(calleeName, callerFile, callerFunction) for a call in main
ApplyResolveSimpleCall ==
    /\ pc = "resolve"
    /\ out.tag = "none"
    /\ out' = resolveSimpleCall(arg.calleeName, getFile(A).val,
                                Fn(<<"main">>, 10, <<>>, arg.diDefaults), 1)
    /\ UNCHANGED <<build, arg>>

NextResolve == ApplyResolveSimpleCall

SpecResolve == InitResolve /\ [][NextResolve]_vars

----------------------------------------------------------------------------
(* Properties of the build (Spec) *)

\* the graph of the traversal in progress and the graphs the traversals returned
traversalGraphs == {graph} \cup seqToSet(bfsGraphs)

\* every graph of a build
allGraphs == traversalGraphs \cup {fullGraph, outputGraph}

edgesOf(g) == seqToSet(g.edges)

\* C1: with a node limit of at least one, a graph of a traversal (in progress
\* or returned) and the merged graph never have more than maxNodes nodes.
C1_NodeLimit ==
    options.maxNodes >= 1 =>
        /\ \A g \in traversalGraphs : Len(g.nodes) <= options.maxNodes
        /\ Len(fullGraph.nodes) <= options.maxNodes

RECURSIVE withinHops(_, _)
\* the ids at most k edges away from the first node of g, the normalised source
withinHops(g, k) ==
    IF k <= 0 THEN {g.nodes[1].id}
    ELSE withinHops(g, k - 1)
         \cup {e.calleeId : e \in {x \in edgesOf(g) : x.callerId \in withinHops(g, k - 1)}}

\* the ids first reached at depth k
firstReachedAt(g, k) ==
    IF k = 0 THEN withinHops(g, 0) ELSE withinHops(g, k) \ withinHops(g, k - 1)

depthBounded(g) ==
    g.nodes # <<>> =>
        /\ nodeIds(g) \subseteq withinHops(g, options.maxDepth)
        /\ \A e \in edgesOf(g) :
               /\ options.maxDepth >= 1
               /\ e.callerId \in withinHops(g, options.maxDepth - 1)
               /\ e.callerId \notin firstReachedAt(g, options.maxDepth)

\* C2: in the graph of a traversal every edge's caller was dequeued at a depth
\* below maxDepth, every node is within maxDepth edges of the normalised
\* source, and a node first reached at depth maxDepth has no outgoing edge.
C2_DepthBounded ==
    /\ \A g \in traversalGraphs : depthBounded(g)
    /\ \A e \in edgesOf(graph) : depthOf[e.callerId] < options.maxDepth

\* the function of a node id has call sites
hasCallSites(id) ==
    /\ curFileOf(id).tag = "some"
    /\ curFnIn(curFileOf(id), id).tag = "some"
    /\ curFnIn(curFileOf(id), id).val.callSites # <<>>

\* a traversal ended with its queue empty and the node limit not reached, and
\* a function with call sites was dequeued at depth maxDepth
C2_Witness ==
    /\ pc = "merge"
    /\ queue = <<>>
    /\ options.maxDepth >= 1
    /\ Len(graph.nodes) < options.maxNodes
    /\ \E id \in DOMAIN depthOf : depthOf[id] = options.maxDepth /\ hasCallSites(id)

endpointsAreNodes(g) ==
    /\ \A e \in edgesOf(g) : e.callerId \in nodeIds(g) /\ e.calleeId \in nodeIds(g)
    /\ \A k \in DOMAIN g.forwardEdges : \A e \in seqToSet(g.forwardEdges[k]) :
           e.callerId \in nodeIds(g) /\ e.calleeId \in nodeIds(g)
    /\ \A k \in DOMAIN g.reverseEdges : \A e \in seqToSet(g.reverseEdges[k]) :
           e.callerId \in nodeIds(g) /\ e.calleeId \in nodeIds(g)

\* C5: in every graph of forwardBfs, of mergeGraphs and of sliceGraph, the
\* caller and the callee of every edge are keys of the graph's node map.
C5_EndpointsAreNodes == \A g \in allGraphs : endpointsAreNodes(g)

\* two traversals were merged and the slice kept some edges and dropped nodes
C5_Witness ==
    /\ pc = "done"
    /\ Len(bfsGraphs) = 2
    /\ bfsGraphs[1].edges # <<>>
    /\ bfsGraphs[2].edges # <<>>
    /\ outputGraph.edges # <<>>
    /\ Len(outputGraph.nodes) < Len(fullGraph.nodes)

samePair(e, f) == e.callerId = f.callerId /\ e.calleeId = f.calleeId

noDuplicateEdges(g) ==
    \A i, j \in 1..Len(g.edges) : samePair(g.edges[i], g.edges[j]) => i = j

\* the call site resolves to the callee
resolvesTo(callSite, callerId, calleeId) ==
    /\ resolveCallSite(callSite, curFileOf(callerId).val,
                       curFnIn(curFileOf(callerId), callerId).val, 1).tag = "ok"
    /\ resolveCallSite(callSite, curFileOf(callerId).val,
                       curFnIn(curFileOf(callerId), callerId).val, 1).targetId = calleeId

\* the call sites of the caller that resolve to the callee, by position
sitesOf(callerId, calleeId) ==
    {i \in 1..Len(curFnIn(curFileOf(callerId), callerId).val.callSites) :
        resolvesTo(curFnIn(curFileOf(callerId), callerId).val.callSites[i],
                   callerId, calleeId)}

minOf(S) == CHOOSE i \in S : \A j \in S : i <= j

\* the edge has the line of the first call site that gives its pair, and the
\* kind that call site resolves with
fromFirstSite(e, callSite) ==
    /\ e.callLine = callSite.line
    /\ e.kind = resolveCallSite(callSite, curFileOf(e.callerId).val,
                                curFnIn(curFileOf(e.callerId), e.callerId).val, 1).kind

firstSeenInTraversal(g) ==
    \A e \in edgesOf(g) :
        LET sites == sitesOf(e.callerId, e.calleeId)
        IN /\ sites # {}
           /\ fromFirstSite(e, curFnIn(curFileOf(e.callerId), e.callerId).val.callSites[
                                   minOf(sites)])

RECURSIVE edgesInOrder(_, _)
\* the edges of the graphs, in merge order
edgesInOrder(graphs, i) ==
    IF i > Len(graphs) THEN <<>> ELSE graphs[i].edges \o edgesInOrder(graphs, i + 1)

\* every edge of `merged` is the first edge of its pair in `edges`
firstSeenInMerge(merged, edges) ==
    \A e \in edgesOf(merged) :
        /\ \E i \in 1..Len(edges) : samePair(edges[i], e)
        /\ e = edges[minOf({i \in 1..Len(edges) : samePair(edges[i], e)})]

\* C6: a graph of forwardBfs or of mergeGraphs has no two edges with the same
\* (caller, callee); the edge kept has the kind and the call line of the first
\* call site, or of the first merged edge, that gives the pair.  (`graph` is
\* the graph the traversal returns when it ends.)
C6_FirstEdgeKept ==
    /\ \A g \in traversalGraphs \cup {fullGraph} : noDuplicateEdges(g)
    /\ firstSeenInTraversal(graph)
    /\ pc \in {"slice", "done"} => firstSeenInMerge(fullGraph, edgesInOrder(bfsGraphs, 1))

\* a merge dropped an edge both traversals have, and some edge stands for two
\* call sites that resolve with different kinds
C6_Witness ==
    /\ pc = "done"
    /\ Len(bfsGraphs) = 2
    /\ Len(fullGraph.edges) < Len(bfsGraphs[1].edges) + Len(bfsGraphs[2].edges)
    /\ \E e \in edgesOf(fullGraph) :
           /\ Cardinality(sitesOf(e.callerId, e.calleeId)) = 2
           /\ \E i \in sitesOf(e.callerId, e.calleeId) :
                  ~fromFirstSite(e, curFnIn(curFileOf(e.callerId), e.callerId).val.callSites[i])

\* C7: no exception escapes forwardBfs, whatever its call sites resolve to.
C7_NoExceptionEscapes == pc # "threw"

isExternalNode(g, id) == nodesHas(g, id) /\ nodesGet(g, id).isExternal

\* C10: with includeExternal, no edge of a graph has as its caller an external
\* node or an id whose file path starts with <external>.
C10_ExternalNodesAreLeaves ==
    includeExternal =>
        \A g \in allGraphs : \A e \in edgesOf(g) :
            /\ ~isExternalNode(g, e.callerId)
            /\ ~startsWith(e.callerId, "<external>")

\* a traversal ended with its queue empty and the node limit not reached, and
\* it dequeued an external node at a depth below maxDepth
C10_Witness ==
    /\ includeExternal
    /\ pc = "merge"
    /\ queue = <<>>
    /\ Len(graph.nodes) < options.maxNodes
    /\ \E id \in DOMAIN depthOf :
           /\ isExternalNode(graph, id)
           /\ depthOf[id] < options.maxDepth
           /\ \E e \in edgesOf(graph) : e.calleeId = id /\ e.kind = "external"

----------------------------------------------------------------------------
(* Properties of sliceGraph (SpecGraph) *)

RECURSIVE pathsUpTo(_, _)
\* the pairs <<a, b>> of nodes of g with a path of at most k edges from a to b
pathsUpTo(g, k) ==
    IF k = 0 THEN {<<n, n>> : n \in nodeIds(g)}
    ELSE LET shorter == pathsUpTo(g, k - 1)
         IN shorter
            \cup {<<pe[1][1], pe[2].calleeId>> :
                     pe \in {x \in shorter \X edgesOf(g) : x[2].callerId = x[1][2]}}

\* the nodes of g on a path from a node of `sources` to a node of `targets`;
\* a path between two of n nodes need not have more than n edges
onPath(g, sources, targets) ==
    LET paths == pathsUpTo(g, Len(g.nodes))
    IN {n \in nodeIds(g) :
           \E s \in seqToSet(sources) \cap nodeIds(g), t \in seqToSet(targets) \cap nodeIds(g) :
               <<s, n>> \in paths /\ <<n, t>> \in paths}

\* C3: a node is in sliceGraph(G, S, T) if and only if it is on a path of G
\* from a node of S to a node of T; ids of S and T that G does not have are
\* ignored.
C3_SliceNodesOnPaths ==
    out.tag = "sliced" => nodeIds(out.val) = onPath(out.input, arg.sources, arg.targets)

\* the slice keeps some nodes and drops others, one source id is not a node
C3_Witness ==
    /\ out.tag = "sliced"
    /\ Absent \in seqToSet(arg.sources)
    /\ out.val.nodes # <<>>
    /\ Len(out.val.nodes) < Len(out.input.nodes)
    /\ \E n \in nodeIds(out.val) : n \notin seqToSet(arg.sources) \cup seqToSet(arg.targets)

bothKept(g, e) == e.callerId \in nodeIds(g) /\ e.calleeId \in nodeIds(g)

\* C4: the edges of sliceGraph(G, S, T) are the edges of G with both ends
\* kept, in the order of G.
C4_SliceEdgesInduced ==
    out.tag = "sliced" =>
        out.val.edges = SelectSeq(out.input.edges, LAMBDA e : bothKept(out.val, e))

\* the slice keeps two edges or more and drops one or more
C4_Witness ==
    /\ out.tag = "sliced"
    /\ Len(out.val.edges) >= 2
    /\ Len(out.val.edges) < Len(out.input.edges)

----------------------------------------------------------------------------
(* Properties of the resolver (SpecResolve, SpecExport) *)

\* C8: resolveSimpleCall returns, with a result or with null, for every callee
\* and every list of DI defaults: the stack does not overflow.
C8_ResolveSimpleCallReturns == out.tag # "throw"

\* the first re-export of the name whose module resolves, if the file has one
followed(filePath, exportedName) ==
    IF getFile(filePath).tag = "null" THEN Null
    ELSE Find(getFile(filePath).val.reExports,
              {i \in 1..Len(getFile(filePath).val.reExports) :
                  /\ getFile(filePath).val.reExports[i].exportedName = exportedName
                  /\ resolveModule(getFile(filePath).val.reExports[i].moduleSpecifier,
                                   filePath) # <<>>})

RECURSIVE followsFor(_, _, _)
\* the chain of re-exports from (filePath, exportedName) is n links long or more
followsFor(filePath, exportedName, n) ==
    IF n = 0 THEN TRUE
    ELSE IF followed(filePath, exportedName).tag = "null" THEN FALSE
    ELSE followsFor(resolveModule(followed(filePath, exportedName).val.moduleSpecifier,
                                  filePath),
                    followed(filePath, exportedName).val.importedName, n - 1)

\* a chain with more links than there are (file, name) pairs repeats one
onCycle(filePath, exportedName) ==
    followsFor(filePath, exportedName,
               Cardinality(DOMAIN files) * Cardinality(ExportNames) + 1)

\* C9: findExport and findClassMethod return for every set of files, and
\* return null when the re-exports they follow form a cycle.
C9_ReExportCyclesEnd ==
    arg.tag \in {"findExport", "findClassMethod"} =>
        /\ out.tag # "throw"
        /\ onCycle(arg.filePath, arg.exportedName) => out = Null

\* findClassMethod was given a name p.ts re-exports from q.ts and q.ts from p.ts
C9_Witness ==
    /\ arg.tag = "findClassMethod"
    /\ arg.filePath = P
    /\ onCycle(arg.filePath, arg.exportedName)
    /\ followed(P, arg.exportedName).val.moduleSpecifier = <<".", "/", "q">>
    /\ out = Null

----------------------------------------------------------------------------
(* More properties of the build (Spec) *)

\* C11: with includeExternal, no entry of the queue of forwardBfs has the id
\* of an external node.
C11_ExternalNeverQueued ==
    includeExternal =>
        \A i \in 1..Len(queue) :
            /\ ~startsWith(queue[i].id, "<external>")
            /\ ~isExternalNode(graph, queue[i].id)

----------------------------------------------------------------------------
(* Properties of mergeGraphs (SpecGraph) *)

\* the position of the first graph of `graphs` that has the node id
firstWith(graphs, id) ==
    CHOOSE i \in 1..Len(graphs) :
        /\ nodesHas(graphs[i], id)
        /\ \A j \in 1..(i - 1) : ~nodesHas(graphs[j], id)

RECURSIVE firstOfEachPair(_, _)
\* the edges of `edges` from position i on that no earlier edge has the pair of
firstOfEachPair(edges, i) ==
    IF i > Len(edges) THEN <<>>
    ELSE IF \E j \in 1..(i - 1) : samePair(edges[j], edges[i])
    THEN firstOfEachPair(edges, i + 1)
    ELSE <<edges[i]>> \o firstOfEachPair(edges, i + 1)

\* C12: the node ids of mergeGraphs(graphs) are the union of the inputs' node
\* ids, each id has the node record of the first input that has it, and the
\* edges are the inputs' edges in input order without every later edge of a
\* (caller, callee) pair seen before.
C12_MergeIsOrderedUnion ==
    out.tag = "merged" =>
        /\ nodeIds(out.val) = UNION {nodeIds(out.inputs[i]) : i \in 1..Len(out.inputs)}
        /\ \A id \in nodeIds(out.val) :
               nodesGet(out.val, id) = nodesGet(out.inputs[firstWith(out.inputs, id)], id)
        /\ out.val.edges = firstOfEachPair(edgesInOrder(out.inputs, 1), 1)

\* the second graph has a node the first has not and a node the first has with
\* another record, and an edge of a pair the first graph has
C12_Witness ==
    /\ out.tag = "merged"
    /\ nodeIds(out.inputs[2]) \ nodeIds(out.inputs[1]) # {}
    /\ nodeIds(out.inputs[2]) \cap nodeIds(out.inputs[1]) # {}
    /\ \E e \in edgesOf(out.inputs[1]), f \in edgesOf(out.inputs[2]) : samePair(e, f)
    /\ Len(out.val.edges) < Len(out.inputs[1].edges) + Len(out.inputs[2].edges)

----------------------------------------------------------------------------
(* Resolver.getFile with its cache.  out = [fileCache, parses, writes,      *)
(* results]: the Map fileCache, and for the record the number of times      *)
(* parseFile ran and fileCache.set ran for each path, and what each request *)
(* returned; arg is the sequence of the paths requested.                    *)

Gone == <<"gone", ".ts">>
Paths == {A, B, Gone}

\* cacheHit without the cache: no request finds an entry
cacheNeverHit(fileCache, filePath) == FALSE

\* resolver.ts:66-67, `const cached = this.fileCache.get(filePath); if (cached)`
cacheHit(fileCache, filePath) == filePath \in DOMAIN fileCache

\* resolver.ts:74-83: parseFile, and fileCache.set unless it threw
parseAndCache(st, filePath) ==
    IF ~files[filePath].readable
    THEN [st EXCEPT !.parses[filePath] = @ + 1,
                    !.results = Append(@, Null)]
    ELSE [st EXCEPT !.parses[filePath] = @ + 1,
                    !.writes[filePath] = @ + 1,
                    !.fileCache = (filePath :> parseSource(filePath, files[filePath])) @@ @,
                    !.results = Append(@, [tag |-> "some",
                                           val |-> parseSource(filePath, files[filePath])])]

\* Resolver.getFile on the resolver state st
getFileCached(st, filePath) ==
    IF cacheHit(st.fileCache, filePath)
    THEN [st EXCEPT !.results = Append(@, [tag |-> "some", val |-> st.fileCache[filePath]])]
    ELSE IF filePath \notin DOMAIN files
    THEN [st EXCEPT !.results = Append(@, Null)]
    ELSE parseAndCache(st, filePath)

InitCache ==
    /\ files \in {Repo(<<Named("h")>>, <<>>, <<>>, b) : b \in {"ok", "unreadable", "missing"}}
    /\ arg = <<>>
    /\ out = [tag |-> "resolver", fileCache |-> <<>>, parses |-> [p \in Paths |-> 0],
              writes |-> [p \in Paths |-> 0], results |-> <<>>]
    /\ includeExternal = FALSE
    /\ options = [maxDepth |-> 0, maxNodes |-> 0]
    /\ sourceIds = <<>>
    /\ targetIds = <<>>
    /\ srcIdx = 1
    /\ pc = "cache"
    /\ graph = createEmptyGraph
    /\ queue = <<>>
    /\ visited = {}
    /\ edgeKeys = {}
    /\ cur = [id |-> <<>>, depth |-> 0, i |-> 0]
    /\ depthOf = <<>>
    /\ bfsGraphs = <<>>
    /\ fullGraph = createEmptyGraph
    /\ outputGraph = createEmptyGraph

\* one request resolver.getFile(filePath)
GetFile ==
    /\ pc = "cache"
    /\ Len(arg) < MaxRequests
    /\ \E filePath \in Paths :
          /\ arg' = Append(arg, filePath)
          /\ out' = getFileCached(out, filePath)
    /\ UNCHANGED build

NextCache == GetFile

SpecCache == InitCache /\ [][NextCache]_vars

\* the position of the first request for the path
firstRequest(filePath) ==
    CHOOSE i \in 1..Len(arg) : arg[i] = filePath /\ \A j \in 1..(i - 1) : arg[j] # filePath

\* C14: the cache entry of a path is written once, by the first request for
\* the path, and every later request for the path returns that ParsedFile and
\* does not parse the file again.
C14_CacheWrittenOnce ==
    /\ \A p \in Paths : out.writes[p] <= 1
    /\ \A p \in DOMAIN out.fileCache :
           /\ out.writes[p] = 1
           /\ out.parses[p] = 1
           /\ out.results[firstRequest(p)] = [tag |-> "some", val |-> out.fileCache[p]]
           /\ \A i \in 1..Len(arg) :
                  arg[i] = p => out.results[i] = [tag |-> "some", val |-> out.fileCache[p]]

\* a path was requested, another one after it, and the first one again
C14_Witness ==
    /\ Len(arg) = 3
    /\ arg[1] = arg[3]
    /\ arg[2] # arg[1]
    /\ arg[1] \in DOMAIN out.fileCache
    /\ out.results[3].tag = "some"


AgentRun == makeFunctionId(A, <<"Agent", ".", "run">>)

\* the traversal has handled the call this._k() of Agent.run
agentCallHandled == cur.id = AgentRun /\ (pc = "threw" \/ cur.i > 1)

\* C15: the call this._k() in Agent.run, whose constructor assigns
\* this._k = deps.k with the default deps = { k: h }, gives an edge of kind
\* di-default from Agent.run to h.
C15_CtorFieldDiEdge ==
    (agentCallHandled /\ getFile(B).tag = "some") =>
        \E e \in edgesOf(graph) :
            /\ e.callerId = AgentRun
            /\ e.calleeId = makeFunctionId(B, <<"h">>)
            /\ e.kind = "di-default"

----------------------------------------------------------------------------
(* resolvePropertyCall on a parsed file that has instance bindings, as the  *)
(* ParsedFile type declares them (types.ts:214-215).                        *)
(*                                                                         *)
(*   a.ts  <import of K>                                                   *)
(*         const x = new K();                                              *)
(*         export function main() { x.<prop>() }                           *)
(*   b.ts  export function h() {}                                          *)
(*         export class K { static m() {} }                                *)
(* K is imported from './b', imported from the package 'lib' that is not   *)
(* installed, declared in a.ts itself, or declared nowhere.                *)

ClassOrigins == {"import", "package", "local", "nowhere"}
PropNames == {"m", "h", "nope"}

InstanceFile(origin, prop) ==
    [readable |-> TRUE,
     functions |->
         <<Fn(<<"main">>, 10, <<Member("x", prop)>>, <<>>)>>
         \o (IF origin = "local" THEN <<Fn(<<"K", ".", "m">>, 20, <<>>, <<>>)>> ELSE <<>>),
     imports |->
         IF origin = "import" THEN <<Import("K", "K", <<".", "/", "b">>, FALSE)>>
         ELSE IF origin = "package" THEN <<Import("K", "K", <<"lib">>, FALSE)>>
         ELSE <<>>,
     reExports |-> <<>>,
     exportedNames |-> (<<"main">> :> <<"main">>),
     objectPropertyBindings |-> <<>>]

\* the ParsedFile of a.ts: what parseSource returns, and the instance
\* bindings of `const x = new K()`
withInstanceBindings(parsed, instanceBindings) ==
    [instanceBindings |-> instanceBindings] @@ parsed

InitInstance ==
    /\ \E origin \in ClassOrigins, prop \in PropNames, bState \in {"ok", "unreadable", "missing"} :
          /\ files = (A :> InstanceFile(origin, prop))
                     @@ (IF bState = "missing" THEN <<>>
                         ELSE (B :> [FileB(<<>>) EXCEPT !.readable = (bState = "ok")]))
          /\ arg = [tag |-> "resolvePropertyCall", objectName |-> <<"x">>,
                    propertyName |-> <<prop>>, className |-> <<"K">>]
    /\ includeExternal \in BOOLEAN
    /\ out = NoArg
    /\ options = [maxDepth |-> 0, maxNodes |-> 0]
    /\ sourceIds = <<>>
    /\ targetIds = <<>>
    /\ srcIdx = 1
    /\ pc = "instance"
    /\ graph = createEmptyGraph
    /\ queue = <<>>
    /\ visited = {}
    /\ edgeKeys = {}
    /\ cur = [id |-> <<>>, depth |-> 0, i |-> 0]
    /\ depthOf = <<>>
    /\ bfsGraphs = <<>>
    /\ fullGraph = createEmptyGraph
    /\ outputGraph = createEmptyGraph

\* resolver.resolvePropertyCall("x", prop, callerFile, main)
ApplyResolvePropertyCall ==
    /\ pc = "instance"
    /\ out = NoArg
    /\ out' = resolvePropertyCall(
                  arg.objectName, arg.propertyName,
                  withInstanceBindings(parseSource(A, files[A]),
                                       (arg.objectName :> arg.className)),
                  files[A].functions[1], 1)
    /\ UNCHANGED <<build, arg>>

NextInstance == ApplyResolvePropertyCall

SpecInstance == InitInstance /\ [][NextInstance]_vars

----------------------------------------------------------------------------
(* visualiser/src/layout-utils.ts, phase 1: backedge detection.  Edge       *)
(* indices are 0-based as in the code.                                      *)

WHITE == 0
GRAY == 1
BLACK == 2

\* layout-utils.ts:31-37: the entries of adj for one node
RECURSIVE adjacencyOf(_, _, _)
adjacencyOf(edges, id, i) ==
    IF i > Len(edges) THEN <<>>
    ELSE (IF edges[i].from = id THEN <<[to |-> edges[i].to, edgeIdx |-> i - 1]>> ELSE <<>>)
         \o adjacencyOf(edges, id, i + 1)

\* layout-utils.ts:30-37
adjacency(ids, edges) ==
    [id \in {ids[i] : i \in 1..Len(ids)} |-> adjacencyOf(edges, id, 1)]

\* color.get(id): -1 stands for undefined
colorOf(color, id) == IF id \in DOMAIN color THEN color[id] ELSE -1

\* isGray testing for a finished node instead of one on the stack
isBlack(c) == c = BLACK

\* layout-utils.ts:43, `c === GRAY`
isGray(c) == c = GRAY

RECURSIVE dfs(_, _, _)
RECURSIVE dfsEdges(_, _, _, _)
RECURSIVE dfsVisit(_, _, _)

\* layout-utils.ts:42-47: one entry of adj.get(u)
dfsVisit(st, adj, entry) ==
    IF isGray(colorOf(st.color, entry.to))
    THEN [st EXCEPT !.backedges = @ \cup {entry.edgeIdx}]
    ELSE IF colorOf(st.color, entry.to) = WHITE
    THEN dfs(st, adj, entry.to)
    ELSE st

\* layout-utils.ts:41-48: the loop over adj.get(u)
dfsEdges(st, adj, u, k) ==
    IF k > Len(adj[u]) THEN st
    ELSE dfsEdges(dfsVisit(st, adj, adj[u][k]), adj, u, k + 1)

\* layout-utils.ts:39-50
dfs(st, adj, u) ==
    [dfsEdges([st EXCEPT !.color[u] = GRAY], adj, u, 1) EXCEPT !.color[u] = BLACK]

\* layout-utils.ts:53-63: dfs from each white node of `roots`, in the order
\* of nodeIds
RECURSIVE dfsFromEach(_, _, _, _, _)
dfsFromEach(st, adj, ids, roots, i) ==
    IF i > Len(ids) THEN st
    ELSE dfsFromEach(IF ids[i] \in roots /\ st.color[ids[i]] = WHITE
                     THEN dfs(st, adj, ids[i])
                     ELSE st,
                     adj, ids, roots, i + 1)

\* layout-utils.ts:21-66
detectBackedges(ids, edges, sourceNodes) ==
    dfsFromEach(
        dfsFromEach([color |-> [id \in {ids[i] : i \in 1..Len(ids)} |-> WHITE],
                     backedges |-> {}],
                    adjacency(ids, edges), ids, sourceNodes, 1),
        adjacency(ids, edges), ids, {ids[i] : i \in 1..Len(ids)}, 1).backedges

(* detectBackedges on the graphs of three nodes.                            *)
DfsNodeIds == << <<"a">>, <<"b">>, <<"c">> >>

InitBackedges ==
    /\ arg \in [tag : {"detectBackedges"},
                nodeIds : {DfsNodeIds},
                edges : SeqsUpTo([from : seqToSet(DfsNodeIds), to : seqToSet(DfsNodeIds)],
                                 MaxDfsEdges),
                sourceNodes : SUBSET seqToSet(DfsNodeIds)]
    /\ out = NoArg
    /\ files = <<>>
    /\ includeExternal = FALSE
    /\ options = [maxDepth |-> 0, maxNodes |-> 0]
    /\ sourceIds = <<>>
    /\ targetIds = <<>>
    /\ srcIdx = 1
    /\ pc = "backedges"
    /\ graph = createEmptyGraph
    /\ queue = <<>>
    /\ visited = {}
    /\ edgeKeys = {}
    /\ cur = [id |-> <<>>, depth |-> 0, i |-> 0]
    /\ depthOf = <<>>
    /\ bfsGraphs = <<>>
    /\ fullGraph = createEmptyGraph
    /\ outputGraph = createEmptyGraph

ApplyDetectBackedges ==
    /\ pc = "backedges"
    /\ out = NoArg
    /\ out' = [tag |-> "backedges",
               val |-> detectBackedges(arg.nodeIds, arg.edges, arg.sourceNodes)]
    /\ UNCHANGED <<build, arg>>

NextBackedges == ApplyDetectBackedges

SpecBackedges == InitBackedges /\ [][NextBackedges]_vars

\* the edges of `edges` whose index is not in `marked`
unmarkedEdges(edges, marked) == {edges[i] : i \in {j \in 1..Len(edges) : (j - 1) \notin marked}}

\* the nodes reached from S along the edges E, S included
RECURSIVE reachedAlong(_, _)
reachedAlong(S, E) ==
    IF {e.to : e \in {x \in E : x.from \in S}} \subseteq S THEN S
    ELSE reachedAlong(S \cup {e.to : e \in {x \in E : x.from \in S}}, E)

\* no directed cycle among the edges E
acyclic(E) == \A e \in E : e.from \notin reachedAlong({e.to}, E)

\* C17: the edges that detectBackedges does not mark form an acyclic graph.
C17_UnmarkedEdgesAcyclic ==
    out.tag = "backedges" => acyclic(unmarkedEdges(arg.edges, out.val))

\* a graph with a cycle through two nodes, of which one edge is marked and
\* another is not
C17_Witness ==
    /\ out.tag = "backedges"
    /\ \E i, j \in 1..Len(arg.edges) :
           /\ arg.edges[i].from = arg.edges[j].to
           /\ arg.edges[i].to = arg.edges[j].from
           /\ arg.edges[i].from # arg.edges[i].to
           /\ (i - 1) \in out.val
           /\ (j - 1) \notin out.val

----------------------------------------------------------------------------
(* visualiser/src/layout-utils.ts, phase 2: layer assignment.  The edges    *)
(* connect listed nodes, as those of every GraphData the exporter writes.   *)

\* layout-utils.ts:81-84: the in-degree of every node
inDegrees(ids, dagEdges) ==
    [id \in {ids[i] : i \in 1..Len(ids)} |->
        Cardinality({i \in 1..Len(dagEdges) : dagEdges[i].to = id})]

\* layout-utils.ts:83: successors.get(id), in edge order
RECURSIVE successorsOf(_, _, _)
successorsOf(dagEdges, id, i) ==
    IF i > Len(dagEdges) THEN <<>>
    ELSE (IF dagEdges[i].from = id THEN <<dagEdges[i].to>> ELSE <<>>)
         \o successorsOf(dagEdges, id, i + 1)

\* layout-utils.ts:87-90: the nodes of in-degree 0, in the order of nodeIds
RECURSIVE rootsOf(_, _, _)
rootsOf(ids, inDegree, i) ==
    IF i > Len(ids) THEN <<>>
    ELSE (IF inDegree[ids[i]] = 0 THEN <<ids[i]>> ELSE <<>>) \o rootsOf(ids, inDegree, i + 1)

\* relax with the first layer a node is given kept, not the largest
relaxFirst(st, u, v) ==
    [layer |-> [st.layer EXCEPT ![v] = IF @ > 0 THEN @ ELSE st.layer[u] + 1],
     inDegree |-> [st.inDegree EXCEPT ![v] = @ - 1],
     kahnQueue |-> IF st.inDegree[v] - 1 = 0 THEN Append(st.kahnQueue, v) ELSE st.kahnQueue]

\* layout-utils.ts:100-104: one successor v of u
relax(st, u, v) ==
    [layer |-> [st.layer EXCEPT ![v] = IF @ > st.layer[u] + 1 THEN @ ELSE st.layer[u] + 1],
     inDegree |-> [st.inDegree EXCEPT ![v] = @ - 1],
     kahnQueue |-> IF st.inDegree[v] - 1 = 0 THEN Append(st.kahnQueue, v) ELSE st.kahnQueue]

\* layout-utils.ts:99-105: the loop over successors.get(u)
RECURSIVE relaxEach(_, _, _, _)
relaxEach(st, u, succ, k) ==
    IF k > Len(succ) THEN st ELSE relaxEach(relax(st, u, succ[k]), u, succ, k + 1)

\* layout-utils.ts:97-106: the loop over the queue
RECURSIVE kahn(_, _)
kahn(st, dagEdges) ==
    IF st.kahnQueue = <<>> THEN st.layer
    ELSE kahn(relaxEach([st EXCEPT !.kahnQueue = Tail(@)], Head(st.kahnQueue),
                        successorsOf(dagEdges, Head(st.kahnQueue), 1), 1),
              dagEdges)

\* layout-utils.ts:70-108
assignLayers(ids, dagEdges) ==
    kahn([layer |-> [id \in {ids[i] : i \in 1..Len(ids)} |-> 0],
          inDegree |-> inDegrees(ids, dagEdges),
          kahnQueue |-> rootsOf(ids, inDegrees(ids, dagEdges), 1)],
         dagEdges)

----------------------------------------------------------------------------
(* Collapse preprocessing and phase 3 (dummy nodes).  A GraphNode is a     *)
(* record with the fields of types.ts; a Set or a Map is a sequence in     *)
(* insertion order where the code iterates over it.                        *)

NODE_HEIGHT == 34
NODE_PADDING_X == 14
CHAR_WIDTH == 7
LAYER_GAP == 70
NODE_GAP == 20
CLUSTER_GAP == 30
CLUSTER_PADDING == 16
CLUSTER_LABEL_HEIGHT == 32
BARYCENTER_SWEEPS == 4

\* the ids of a node list, `nodes.map((n) => n.id)`
RECURSIVE idsFrom(_, _)
idsFrom(nodes, i) == IF i > Len(nodes) THEN <<>> ELSE <<nodes[i].id>> \o idsFrom(nodes, i + 1)

idsOf(nodes) == idsFrom(nodes, 1)

\* `filePath.split("/").pop()`
lastSegment(filePath) ==
    IF \A i \in 1..Len(filePath) : filePath[i] # "/" THEN filePath
    ELSE SubSeq(filePath,
                1 + CHOOSE i \in 1..Len(filePath) :
                        filePath[i] = "/" /\ \A j \in (i + 1)..Len(filePath) : filePath[j] # "/",
                Len(filePath))

\* `__collapsed:${filePath}`
collapsedId(filePath) == <<"__collapsed:">> \o filePath

\* layout-utils.ts:817, `data.nodes.filter((n) => n.filePath === filePath)`
RECURSIVE fileNodesOf(_, _, _)
fileNodesOf(nodes, filePath, i) ==
    IF i > Len(nodes) THEN <<>>
    ELSE (IF nodes[i].filePath = filePath THEN <<nodes[i]>> ELSE <<>>)
         \o fileNodesOf(nodes, filePath, i + 1)

\* layout-utils.ts:823-831
syntheticNode(filePath, fileNodes) ==
    [id |-> collapsedId(filePath),
     filePath |-> filePath,
     qualifiedName |-> lastSegment(filePath),
     line |-> 0,
     isInstrumented |-> \E i \in 1..Len(fileNodes) : fileNodes[i].isInstrumented,
     isSource |-> \E i \in 1..Len(fileNodes) : fileNodes[i].isSource,
     isTarget |-> \E i \in 1..Len(fileNodes) : fileNodes[i].isTarget]

\* layout-utils.ts:816-832: the synthetic nodes, in the order of the set
RECURSIVE syntheticNodes(_, _, _)
syntheticNodes(nodes, collapsedFiles, i) ==
    IF i > Len(collapsedFiles) THEN <<>>
    ELSE (IF fileNodesOf(nodes, collapsedFiles[i], 1) = <<>> THEN <<>>
          ELSE <<syntheticNode(collapsedFiles[i], fileNodesOf(nodes, collapsedFiles[i], 1))>>)
         \o syntheticNodes(nodes, collapsedFiles, i + 1)

\* layout-utils.ts:821: the ids of the nodes of collapsed files
removedNodeIds(nodes, collapsedFiles) ==
    {nodes[i].id : i \in {j \in 1..Len(nodes) :
                              \E k \in 1..Len(collapsedFiles) :
                                  nodes[j].filePath = collapsedFiles[k]}}

\* layout-utils.ts:820
collapsedCountsOf(nodes, collapsedFiles) ==
    [filePath \in {nodes[i].filePath : i \in {j \in 1..Len(nodes) :
                                                  \E k \in 1..Len(collapsedFiles) :
                                                      nodes[j].filePath = collapsedFiles[k]}}
        |-> Len(fileNodesOf(nodes, filePath, 1))]

\* layout-utils.ts:834, the nodes that stay
RECURSIVE keptNodes(_, _, _)
keptNodes(nodes, removed, i) ==
    IF i > Len(nodes) THEN <<>>
    ELSE (IF nodes[i].id \in removed THEN <<>> ELSE <<nodes[i]>>)
         \o keptNodes(nodes, removed, i + 1)

\* layout-utils.ts:837-842 and 847-848, `nodeToSynthetic.get(id) ?? id`;
\* of several nodes with one id the last one set the entry
remapped(nodes, removed, id) ==
    IF id \in removed
    THEN collapsedId(nodes[CHOOSE i \in 1..Len(nodes) :
                               nodes[i].id = id
                               /\ \A j \in (i + 1)..Len(nodes) : nodes[j].id # id].filePath)
    ELSE id

\* remapEdge without the test for self-loops
remapEdgeWithLoops(acc, e, from, to) ==
    IF <<from, to, e.kind>> \in acc.seenEdges THEN acc
    ELSE [seenEdges |-> acc.seenEdges \cup {<<from, to, e.kind>>},
          newEdges |-> Append(acc.newEdges, [e EXCEPT !.from = from, !.to = to])]

\* layout-utils.ts:849-854: one edge, its ends already remapped
remapEdge(acc, e, from, to) ==
    IF from = to THEN acc
    ELSE IF <<from, to, e.kind>> \in acc.seenEdges THEN acc
    ELSE [seenEdges |-> acc.seenEdges \cup {<<from, to, e.kind>>},
          newEdges |-> Append(acc.newEdges, [e EXCEPT !.from = from, !.to = to])]

\* layout-utils.ts:844-855
RECURSIVE remapEdges(_, _, _, _, _)
remapEdges(acc, edges, nodes, removed, i) ==
    IF i > Len(edges) THEN acc.newEdges
    ELSE remapEdges(remapEdge(acc, edges[i], remapped(nodes, removed, edges[i].from),
                              remapped(nodes, removed, edges[i].to)),
                    edges, nodes, removed, i + 1)

\* layout-utils.ts:805-860
preprocessCollapsed(data, collapsedFiles) ==
    [data |->
        [nodes |-> keptNodes(data.nodes, removedNodeIds(data.nodes, collapsedFiles), 1)
                   \o syntheticNodes(data.nodes, collapsedFiles, 1),
         edges |-> remapEdges([seenEdges |-> {}, newEdges |-> <<>>], data.edges, data.nodes,
                              removedNodeIds(data.nodes, collapsedFiles), 1)],
     collapsedCounts |-> collapsedCountsOf(data.nodes, collapsedFiles)]

\* the node of a Map of internal nodes, `nodes.get(id)!`
nodeOf(nodes, id) == nodes[CHOOSE i \in 1..Len(nodes) : nodes[i].id = id]

\* String(n) of a number below 10
Digits == <<"0", "1", "2", "3", "4", "5", "6", "7", "8", "9">>

\* layout-utils.ts:157-165: the dummy node of layer l
dummyNode(counter, l, filePath) ==
    [id |-> <<"__dummy_", Digits[counter + 1]>>,
     original |-> Null,
     isDummy |-> TRUE,
     layer |-> l,
     filePath |-> filePath]

\* layout-utils.ts:166-173 and 176-183: a segment of the chain of an edge
segment(edge, from, to) ==
    [from |-> from, to |-> to, kind |-> edge.kind, isBackedge |-> FALSE,
     originalEdgeIndex |-> edge.originalEdgeIndex]

\* layout-utils.ts:153-183: the chain of one long edge, from layer l on
RECURSIVE chainFrom(_, _, _, _, _, _)
chainFrom(acc, edge, prevId, l, toLayer, filePath) ==
    IF l >= toLayer
    THEN [acc EXCEPT !.edges = Append(@, segment(edge, prevId, edge.to))]
    ELSE chainFrom([nodes |-> Append(acc.nodes, dummyNode(acc.dummyCounter, l, filePath)),
                    edges |-> Append(acc.edges,
                                     segment(edge, prevId,
                                             dummyNode(acc.dummyCounter, l, filePath).id)),
                    dummyCounter |-> acc.dummyCounter + 1],
                   edge, dummyNode(acc.dummyCounter, l, filePath).id, l + 1, toLayer, filePath)

\* splitEdge passing every edge through
splitNothing(acc, edge) == [acc EXCEPT !.edges = Append(@, edge)]

\* layout-utils.ts:138-183: one edge
splitEdge(acc, edge) ==
    IF edge.isBackedge THEN [acc EXCEPT !.edges = Append(@, edge)]
    ELSE IF nodeOf(acc.nodes, edge.to).layer - nodeOf(acc.nodes, edge.from).layer <= 1
    THEN [acc EXCEPT !.edges = Append(@, edge)]
    ELSE chainFrom(acc, edge, edge.from, nodeOf(acc.nodes, edge.from).layer + 1,
                   nodeOf(acc.nodes, edge.to).layer, nodeOf(acc.nodes, edge.from).filePath)

\* layout-utils.ts:137-184
RECURSIVE splitEdges(_, _, _)
splitEdges(acc, edges, i) ==
    IF i > Len(edges) THEN [nodes |-> acc.nodes, edges |-> acc.edges]
    ELSE splitEdges(splitEdge(acc, edges[i]), edges, i + 1)

\* layout-utils.ts:129-184
createDummyNodes(nodes, edges) ==
    splitEdges([nodes |-> nodes, edges |-> <<>>, dummyCounter |-> 0], edges, 1)

----------------------------------------------------------------------------
(* Phases 4 to 6: ordering, coordinates, clusters.  Every length of a      *)
(* positioned node or a cluster is in half pixels, so that the halves of   *)
(* layout-utils.ts:537 and 547 are integers.  An ordering that was not     *)
(* given (undefined) is the empty sequence: the code treats the two alike  *)
(* (layout-utils.ts:206 and 428).                                          *)

\* the number of characters of a string; every token is one character but
\* the two prefixes
RECURSIVE length(_)
length(s) ==
    IF s = <<>> THEN 0
    ELSE (IF Head(s) = "__collapsed:" THEN 12 ELSE IF Head(s) = "__dummy_" THEN 8 ELSE 1)
         + length(Tail(s))

\* Math.max
max(a, b) == IF a > b THEN a ELSE b

\* `String(n).length` of a number below 100
digits(n) == IF n < 10 THEN 1 ELSE 2

\* layout-utils.ts:356-365, in pixels; `collapsedCount ?? 0`
estimateNodeWidth(node) ==
    IF node.isDummy THEN 0
    ELSE IF startsWith(node.id, "__collapsed:")
    THEN (length(lastSegment(node.filePath)) + 2 + digits(max(node.collapsedCount, 0)) + 1)
         * CHAR_WIDTH
         + NODE_PADDING_X * 2
    ELSE (length(node.original.qualifiedName) + 1 + digits(node.original.line)) * CHAR_WIDTH
         + NODE_PADDING_X * 2

\* layout-utils.ts:394-395
layerFlowSize(n, isLR) == IF isLR THEN max(estimateNodeWidth(n), 4) ELSE NODE_HEIGHT

\* layout-utils.ts:396-397
nodeFlowSize(n, isLR) ==
    IF isLR THEN max(estimateNodeWidth(n), 4) ELSE IF n.isDummy THEN 0 ELSE NODE_HEIGHT

\* layout-utils.ts:398-399
nodeCrossSize(n, isLR) ==
    IF isLR THEN (IF n.isDummy THEN 0 ELSE NODE_HEIGHT) ELSE max(estimateNodeWidth(n), 4)

\* Array.prototype.indexOf, 0-based, -1 when absent
indexIn(s, x) ==
    IF \A i \in 1..Len(s) : s[i] # x THEN -1
    ELSE (CHOOSE i \in 1..Len(s) : s[i] = x /\ \A j \in 1..(i - 1) : s[j] # x) - 1

\* String.prototype.localeCompare on the tokens of the model: punctuation
\* before digits before letters
Collation ==
    <<"__collapsed:", "__dummy_", "/", "0", "1", "2", "3", "4", "5", "6", "7", "8", "9",
      "a", "b", "c", "d", "p", "q", "r", "s", "x">>

\* the place of a token in Collation
rankOf(tok) == CHOOSE i \in 1..Len(Collation) : Collation[i] = tok

\* a.localeCompare(b): -1, 0 or 1
RECURSIVE localeCompare(_, _)
localeCompare(a, b) ==
    IF a = <<>> THEN (IF b = <<>> THEN 0 ELSE -1)
    ELSE IF b = <<>> THEN 1
    ELSE IF rankOf(Head(a)) < rankOf(Head(b)) THEN -1
    ELSE IF rankOf(Head(a)) > rankOf(Head(b)) THEN 1
    ELSE localeCompare(Tail(a), Tail(b))

\* Array.prototype.sort, which is stable: below[i] is the number of elements
\* that the comparator puts before s[i]; the elements from place k on
RECURSIVE sorted(_, _, _)
sorted(s, below, k) ==
    IF k > Len(s) THEN <<>>
    ELSE <<s[CHOOSE i \in 1..Len(s) :
                 below[i] + Cardinality({j \in 1..(i - 1) : below[j] = below[i]}) + 1 = k]>>
         \o sorted(s, below, k + 1)

\* layout-utils.ts:196-201: the ids of each layer, in the order of the Map
RECURSIVE layerIds(_, _, _)
layerIds(nodes, l, i) ==
    IF i > Len(nodes) THEN <<>>
    ELSE (IF nodes[i].layer = l THEN <<nodes[i].id>> ELSE <<>>) \o layerIds(nodes, l, i + 1)

\* layout-utils.ts:205-210, `prevOrderIndex.get(filePath)`; -1 for undefined
prevOrderIndex(previousClusterOrder, filePath) ==
    IF \A i \in 1..Len(previousClusterOrder) : previousClusterOrder[i] # filePath THEN -1
    ELSE (CHOOSE i \in 1..Len(previousClusterOrder) :
              /\ previousClusterOrder[i] = filePath
              /\ \A j \in (i + 1)..Len(previousClusterOrder) :
                     previousClusterOrder[j] # filePath) - 1

\* layout-utils.ts:213-230: the comparator of the initial sort is negative
initialBefore(na, nb) ==
    IF na.idx # -1 /\ nb.idx # -1
    THEN (IF na.idx # nb.idx THEN na.idx < nb.idx ELSE localeCompare(na.id, nb.id) < 0)
    ELSE IF na.idx # -1 THEN TRUE
    ELSE IF nb.idx # -1 THEN FALSE
    ELSE IF localeCompare(na.filePath, nb.filePath) # 0
    THEN localeCompare(na.filePath, nb.filePath) < 0
    ELSE localeCompare(na.id, nb.id) < 0

\* layout-utils.ts:214-218: what the comparator reads of each node of a layer
RECURSIVE initialKeys(_, _, _, _)
initialKeys(layer, nodes, previousClusterOrder, i) ==
    IF i > Len(layer) THEN <<>>
    ELSE <<[id |-> layer[i],
            filePath |-> nodeOf(nodes, layer[i]).filePath,
            idx |-> prevOrderIndex(previousClusterOrder, nodeOf(nodes, layer[i]).filePath)]>>
         \o initialKeys(layer, nodes, previousClusterOrder, i + 1)

\* the number of nodes that the initial comparator puts before each node
RECURSIVE initialBelow(_, _)
initialBelow(keys, i) ==
    IF i > Len(keys) THEN <<>>
    ELSE <<Cardinality({j \in 1..Len(keys) : initialBefore(keys[j], keys[i])})>>
         \o initialBelow(keys, i + 1)

\* layout-utils.ts:212-231: the initial sort of one layer
initialSort(layer, nodes, previousClusterOrder) ==
    sorted(layer, initialBelow(initialKeys(layer, nodes, previousClusterOrder, 1), 1), 1)

\* layout-utils.ts:240-244: predecessors.get(id) when `end` is "from" and
\* successorsList.get(id) when it is "to", in edge order
RECURSIVE neighboursOf(_, _, _, _)
neighboursOf(edges, id, end, i) ==
    IF i > Len(edges) THEN <<>>
    ELSE (IF ~edges[i].isBackedge /\ edges[i][IF end = "from" THEN "to" ELSE "from"] = id
          THEN <<edges[i][end]>> ELSE <<>>)
         \o neighboursOf(edges, id, end, i + 1)

\* the positions in refLayer of those of `ids` that are in it, summed and
\* counted: the mean is sum / count, and Infinity when count is 0
RECURSIVE positionsIn(_, _, _, _)
positionsIn(acc, refLayer, ids, i) ==
    IF i > Len(ids) THEN acc
    ELSE positionsIn(IF indexIn(refLayer, ids[i]) = -1 THEN acc
                     ELSE [sum |-> acc.sum + indexIn(refLayer, ids[i]),
                           count |-> acc.count + 1],
                     refLayer, ids, i + 1)

\* layout-utils.ts:246-259
barycenter(nodeId, refLayer, edges) ==
    positionsIn([sum |-> 0, count |-> 0], refLayer,
                neighboursOf(edges, nodeId, "from", 1) \o neighboursOf(edges, nodeId, "to", 1),
                1)

\* layout-utils.ts:342-348: the neighbours of the nodes of one file
RECURSIVE clusterNeighbours(_, _, _, _, _, _)
clusterNeighbours(filePath, currentLayer, end, nodes, edges, i) ==
    IF i > Len(currentLayer) THEN <<>>
    ELSE (IF nodeOf(nodes, currentLayer[i]).filePath # filePath THEN <<>>
          ELSE neighboursOf(edges, currentLayer[i], end, 1))
         \o clusterNeighbours(filePath, currentLayer, end, nodes, edges, i + 1)

\* layout-utils.ts:328-352
clusterBarycenter(filePath, currentLayer, refLayer, end, nodes, edges) ==
    positionsIn([sum |-> 0, count |-> 0], refLayer,
                clusterNeighbours(filePath, currentLayer, end, nodes, edges, 1), 1)

\* x < y for two means
meanBelow(x, y) ==
    IF x.count = 0 THEN FALSE
    ELSE IF y.count = 0 THEN TRUE
    ELSE x.sum * y.count < y.sum * x.count

\* layout-utils.ts:279-281 and 307-309: the comparator of a sweep is
\* negative; Infinity - Infinity is NaN, which sort takes for 0
sweepBefore(ka, kb) ==
    IF meanBelow(ka.clusterBary, kb.clusterBary) \/ meanBelow(kb.clusterBary, ka.clusterBary)
    THEN meanBelow(ka.clusterBary, kb.clusterBary)
    ELSE IF localeCompare(ka.filePath, kb.filePath) # 0
    THEN localeCompare(ka.filePath, kb.filePath) < 0
    ELSE meanBelow(ka.bary, kb.bary)

\* layout-utils.ts:265-281: what the comparator computes of each node
RECURSIVE sweepKeys(_, _, _, _, _, _)
sweepKeys(layer, refLayer, end, nodes, edges, i) ==
    IF i > Len(layer) THEN <<>>
    ELSE <<[clusterBary |-> clusterBarycenter(nodeOf(nodes, layer[i]).filePath, layer,
                                              refLayer, end, nodes, edges),
            filePath |-> nodeOf(nodes, layer[i]).filePath,
            bary |-> barycenter(layer[i], refLayer, edges)]>>
         \o sweepKeys(layer, refLayer, end, nodes, edges, i + 1)

\* the number of nodes that the comparator of a sweep puts before each node
RECURSIVE sweepBelow(_, _)
sweepBelow(keys, i) ==
    IF i > Len(keys) THEN <<>>
    ELSE <<Cardinality({j \in 1..Len(keys) : sweepBefore(keys[j], keys[i])})>>
         \o sweepBelow(keys, i + 1)

\* layout-utils.ts:264-282 and 287-310: the sort of a layer against refLayer
sweepSort(layer, refLayer, end, nodes, edges) ==
    sorted(layer, sweepBelow(sweepKeys(layer, refLayer, end, nodes, edges, 1), 1), 1)

\* layout-utils.ts:263-283: the down sweep from layer l on (layers[l + 1])
RECURSIVE downSweep(_, _, _, _)
downSweep(layers, nodes, edges, l) ==
    IF l >= Len(layers) THEN layers
    ELSE downSweep([layers EXCEPT ![l + 1] = sweepSort(@, layers[l], "from", nodes, edges)],
                   nodes, edges, l + 1)

\* layout-utils.ts:285-311: the up sweep from layer l down
RECURSIVE upSweep(_, _, _, _)
upSweep(layers, nodes, edges, l) ==
    IF l < 0 THEN layers
    ELSE upSweep([layers EXCEPT ![l + 1] = sweepSort(@, layers[l + 2], "to", nodes, edges)],
                 nodes, edges, l - 1)

\* layout-utils.ts:261-312
RECURSIVE sweeps(_, _, _, _)
sweeps(layers, nodes, edges, sweep) ==
    IF sweep >= BARYCENTER_SWEEPS THEN layers
    ELSE sweeps(upSweep(downSweep(layers, nodes, edges, 1), nodes, edges, Len(layers) - 2),
                nodes, edges, sweep + 1)

\* layout-utils.ts:195-231: the layers from l on, after the initial sort
RECURSIVE initialLayers(_, _, _, _)
initialLayers(nodes, maxLayer, previousClusterOrder, l) ==
    IF l > maxLayer THEN <<>>
    ELSE <<initialSort(layerIds(nodes, l, 1), nodes, previousClusterOrder)>>
         \o initialLayers(nodes, maxLayer, previousClusterOrder, l + 1)

\* layout-utils.ts:188-326: the ids of each layer in their final order;
\* order.get(id) is the place of id in its layer
orderNodes(nodes, edges, maxLayer, previousClusterOrder) ==
    sweeps(initialLayers(nodes, maxLayer, previousClusterOrder, 0), nodes, edges, 0)

\* the nodes with the ids of one layer
RECURSIVE nodesOfLayer(_, _, _)
nodesOfLayer(nodes, layer, k) ==
    IF k > Len(layer) THEN <<>>
    ELSE <<nodeOf(nodes, layer[k])>> \o nodesOfLayer(nodes, layer, k + 1)

\* layout-utils.ts:402-412: the nodes of each layer, sorted by `order`
RECURSIVE orderedLayers(_, _, _)
orderedLayers(nodes, order, l) ==
    IF l > Len(order) THEN <<>>
    ELSE <<nodesOfLayer(nodes, order[l], 1)>> \o orderedLayers(nodes, order, l + 1)

\* the layers one after the other
RECURSIVE flatten(_)
flatten(layers) == IF layers = <<>> THEN <<>> ELSE Head(layers) \o flatten(Tail(layers))

\* layout-utils.ts:415-425: the file paths in the order of their first node
RECURSIVE scanOrderOf(_, _, _)
scanOrderOf(seen, ns, i) ==
    IF i > Len(ns) THEN seen
    ELSE scanOrderOf(IF \E k \in 1..Len(seen) : seen[k] = ns[i].filePath
                     THEN seen ELSE Append(seen, ns[i].filePath),
                     ns, i + 1)

\* filterIn keeping every element
filterNothing(s, S, keep) == s

\* Array.prototype.filter on membership in a set
RECURSIVE filterIn(_, _, _)
filterIn(s, S, keep) ==
    IF s = <<>> THEN <<>>
    ELSE (IF (Head(s) \in S) = keep THEN <<Head(s)>> ELSE <<>>) \o filterIn(Tail(s), S, keep)

\* layout-utils.ts:435-443: after the nearest file before position i of the
\* scan order that is in clusterOrder, at the end when there is none
RECURSIVE insertAt(_, _, _)
insertAt(clusterOrder, scanOrder, i) ==
    IF i < 0 THEN Len(clusterOrder)
    ELSE IF indexIn(clusterOrder, scanOrder[i + 1]) # -1
    THEN indexIn(clusterOrder, scanOrder[i + 1]) + 1
    ELSE insertAt(clusterOrder, scanOrder, i - 1)

\* `clusterOrder.splice(at, 0, fp)`
splice(s, at, x) == SubSeq(s, 1, at) \o <<x>> \o SubSeq(s, at + 1, Len(s))

\* layout-utils.ts:433-445: the loop over newClusters
RECURSIVE insertEach(_, _, _, _)
insertEach(clusterOrder, newClusters, scanOrder, k) ==
    IF k > Len(newClusters) THEN clusterOrder
    ELSE insertEach(splice(clusterOrder,
                           insertAt(clusterOrder, scanOrder,
                                    indexIn(scanOrder, newClusters[k]) - 1),
                           newClusters[k]),
                    newClusters, scanOrder, k + 1)

\* clusterOrderOf without the previous ordering
clusterOrderFromScan(scanOrder, previousClusterOrder) == scanOrder

\* layout-utils.ts:427-449
clusterOrderOf(scanOrder, previousClusterOrder) ==
    IF Len(previousClusterOrder) > 0
    THEN insertEach(filterIn(previousClusterOrder, seqToSet(scanOrder), TRUE),
                    filterIn(scanOrder,
                             seqToSet(filterIn(previousClusterOrder, seqToSet(scanOrder), TRUE)),
                             FALSE),
                    scanOrder, 1)
    ELSE scanOrder

\* layout-utils.ts:452-459: the largest flow size of a layer
RECURSIVE layerFlowExtent(_, _, _)
layerFlowExtent(layer, isLR, i) ==
    IF i > Len(layer) THEN 0
    ELSE max(layerFlowSize(layer[i], isLR), layerFlowExtent(layer, isLR, i + 1))

\* layout-utils.ts:462-467: where layer l (1-based here) starts
RECURSIVE layerFlowPos(_, _, _)
layerFlowPos(layers, isLR, l) ==
    IF l = 1 THEN CLUSTER_PADDING
    ELSE layerFlowPos(layers, isLR, l - 1)
         + layerFlowExtent(layers[l - 1], isLR, 1) + LAYER_GAP

\* layout-utils.ts:474-482: the nodes of a layer that are of one file
RECURSIVE groupOf(_, _)
groupOf(layer, filePath) ==
    IF layer = <<>> THEN <<>>
    ELSE (IF Head(layer).filePath = filePath THEN <<Head(layer)>> ELSE <<>>)
         \o groupOf(Tail(layer), filePath)

\* layout-utils.ts:485-489 and 521-525: the cross size of the first i nodes
\* of a group, with the gaps between them
RECURSIVE groupCross(_, _, _)
groupCross(group, isLR, i) ==
    IF i = 0 THEN 0
    ELSE groupCross(group, isLR, i - 1) + (IF i > 1 THEN NODE_GAP ELSE 0)
         + nodeCrossSize(group[i], isLR)

\* layout-utils.ts:470-493: the largest cross size of the groups of a file
RECURSIVE maxClusterCross(_, _, _, _)
maxClusterCross(layers, filePath, isLR, l) ==
    IF l > Len(layers) THEN 0
    ELSE max(groupCross(groupOf(layers[l], filePath), isLR, Len(groupOf(layers[l], filePath))),
             maxClusterCross(layers, filePath, isLR, l + 1))

\* layout-utils.ts:400
crossLabelSpace(isLR) == IF isLR THEN CLUSTER_LABEL_HEIGHT ELSE 0

\* layout-utils.ts:496-502: where the k-th file of clusterOrder starts
RECURSIVE clusterCrossPos(_, _, _, _)
clusterCrossPos(layers, clusterOrder, isLR, k) ==
    IF k = 1 THEN CLUSTER_PADDING + crossLabelSpace(isLR)
    ELSE clusterCrossPos(layers, clusterOrder, isLR, k - 1)
         + maxClusterCross(layers, clusterOrder[k - 1], isLR, 1)
         + CLUSTER_PADDING * 2 + crossLabelSpace(isLR) + CLUSTER_GAP

\* layout-utils.ts:530-573: the i-th node of a group; flow2 and cross2 are
\* the doubled positions of the node along the two axes
positionedNode(node, order, flow2, cross2, isLR) ==
    [id |-> node.id,
     x |-> IF isLR THEN flow2 ELSE cross2,
     y |-> IF isLR THEN cross2 ELSE flow2,
     width |-> 2 * estimateNodeWidth(node),
     height |-> 2 * (IF node.isDummy THEN 0 ELSE NODE_HEIGHT),
     original |-> node.original,
     isDummy |-> node.isDummy,
     layer |-> node.layer,
     order |-> order]

\* layout-utils.ts:515-575: the nodes of one group
positionedGroup(group, layer, flowPos, flowExtent, crossPos, crossExtent, isLR) ==
    [i \in 1..Len(group) |->
        positionedNode(group[i],
                       (CHOOSE k \in 1..Len(layer) : layer[k].id = group[i].id) - 1,
                       2 * flowPos + (flowExtent - nodeFlowSize(group[i], isLR)),
                       2 * crossPos + (crossExtent - groupCross(group, isLR, Len(group)))
                       + 2 * (IF i = 1 THEN 0 ELSE groupCross(group, isLR, i - 1) + NODE_GAP),
                       isLR)]

\* layout-utils.ts:511-576: the nodes of one layer, file after file
RECURSIVE positionedLayer(_, _, _, _, _)
positionedLayer(layers, l, clusterOrder, isLR, k) ==
    IF k > Len(clusterOrder) THEN <<>>
    ELSE positionedGroup(groupOf(layers[l], clusterOrder[k]), layers[l],
                         layerFlowPos(layers, isLR, l),
                         layerFlowExtent(layers[l], isLR, 1),
                         clusterCrossPos(layers, clusterOrder, isLR, k),
                         maxClusterCross(layers, clusterOrder[k], isLR, 1),
                         isLR)
         \o positionedLayer(layers, l, clusterOrder, isLR, k + 1)

\* layout-utils.ts:505-577
RECURSIVE positionedFrom(_, _, _, _)
positionedFrom(layers, clusterOrder, isLR, l) ==
    IF l > Len(layers) THEN <<>>
    ELSE positionedLayer(layers, l, clusterOrder, isLR, 1)
         \o positionedFrom(layers, clusterOrder, isLR, l + 1)

\* layout-utils.ts:379-580; `layers` are the layers sorted by `order`
assignCoordinates(layers, previousClusterOrder, direction) ==
    [positioned |->
        positionedFrom(layers,
                       clusterOrderOf(scanOrderOf(<<>>, flatten(layers), 1),
                                      previousClusterOrder),
                       direction = "LR", 1),
     clusterOrder |-> clusterOrderOf(scanOrderOf(<<>>, flatten(layers), 1),
                                     previousClusterOrder)]

----------------------------------------------------------------------------
(* layout.ts: layoutGraph.  The waypoints of the edges are left out.       *)

\* layout-utils.ts:769-778: the file paths of the nodes that are no dummies,
\* in the order of their first node
RECURSIVE clusterFiles(_, _, _)
clusterFiles(seen, positioned, i) ==
    IF i > Len(positioned) THEN seen
    ELSE clusterFiles(IF positioned[i].isDummy
                         \/ \E k \in 1..Len(seen) : seen[k] = positioned[i].original.filePath
                      THEN seen ELSE Append(seen, positioned[i].original.filePath),
                      positioned, i + 1)

\* Math.min and Math.max over a non-empty set of numbers
least(S) == CHOOSE x \in S : \A y \in S : x <= y
greatest(S) == CHOOSE x \in S : \A y \in S : x >= y

\* layout-utils.ts:781-799: the cluster around the nodes ns, in half pixels
clusterAround(filePath, ns) ==
    [filePath |-> filePath,
     x |-> least({n.x : n \in ns}) - 2 * CLUSTER_PADDING,
     y |-> least({n.y : n \in ns}) - 2 * CLUSTER_PADDING - 2 * CLUSTER_LABEL_HEIGHT,
     width |-> greatest({n.x + n.width : n \in ns}) - least({n.x : n \in ns})
               + 2 * CLUSTER_PADDING * 2,
     height |-> greatest({n.y + n.height : n \in ns}) - least({n.y : n \in ns})
                + 2 * CLUSTER_PADDING * 2 + 2 * CLUSTER_LABEL_HEIGHT]

\* layout-utils.ts:767-801
computeClusters(positioned) ==
    [k \in 1..Len(clusterFiles(<<>>, positioned, 1)) |->
        clusterAround(clusterFiles(<<>>, positioned, 1)[k],
                      {positioned[i] : i \in {j \in 1..Len(positioned) :
                          /\ ~positioned[j].isDummy
                          /\ positioned[j].original.filePath
                             = clusterFiles(<<>>, positioned, 1)[k]}})]

\* layout.ts:257-262
effectiveData(data, collapsedFiles) ==
    IF Len(collapsedFiles) > 0 THEN preprocessCollapsed(data, collapsedFiles)
    ELSE [data |-> data, collapsedCounts |-> <<>>]

\* layout.ts:266
sourceNodesOf(nodes) == {nodes[i].id : i \in {j \in 1..Len(nodes) : nodes[j].isSource}}

\* layout.ts:272-274: the edges that are no backedges
RECURSIVE dagEdgesOf(_, _, _)
dagEdgesOf(edges, backedgeSet, i) ==
    IF i > Len(edges) THEN <<>>
    ELSE (IF (i - 1) \in backedgeSet THEN <<>>
          ELSE <<[from |-> edges[i].from, to |-> edges[i].to]>>)
         \o dagEdgesOf(edges, backedgeSet, i + 1)

\* layout.ts:284-294: the internal nodes from the i-th node on;
\* collapsedCount is -1 where the code has undefined
RECURSIVE internalNodes(_, _, _, _)
internalNodes(nodes, layers, collapsedCounts, i) ==
    IF i > Len(nodes) THEN <<>>
    ELSE <<[id |-> nodes[i].id,
            original |-> nodes[i],
            isDummy |-> FALSE,
            layer |-> layers[nodes[i].id],
            filePath |-> nodes[i].filePath,
            collapsedCount |-> IF nodes[i].filePath \in DOMAIN collapsedCounts
                               THEN collapsedCounts[nodes[i].filePath] ELSE -1]>>
         \o internalNodes(nodes, layers, collapsedCounts, i + 1)

\* layout.ts:297-303: the internal edges from the i-th edge on
RECURSIVE internalEdges(_, _, _)
internalEdges(edges, backedgeSet, i) ==
    IF i > Len(edges) THEN <<>>
    ELSE <<[from |-> edges[i].from,
            to |-> edges[i].to,
            kind |-> edges[i].kind,
            isBackedge |-> (i - 1) \in backedgeSet,
            originalEdgeIndex |-> i - 1]>>
         \o internalEdges(edges, backedgeSet, i + 1)

\* layout.ts:275-306: phases 2 and 3, given the backedges
layeredWith(nodes, edges, backedgeSet, collapsedCounts) ==
    createDummyNodes(
        internalNodes(nodes, assignLayers(idsOf(nodes), dagEdgesOf(edges, backedgeSet, 1)),
                      collapsedCounts, 1),
        internalEdges(edges, backedgeSet, 1))

\* layout.ts:264-306: phases 1 to 3 on the effective data
layered(effective) ==
    layeredWith(effective.data.nodes, effective.data.edges,
                detectBackedges(idsOf(effective.data.nodes), effective.data.edges,
                                sourceNodesOf(effective.data.nodes)),
                effective.collapsedCounts)

\* layout.ts:309-313
actualMaxLayer(nodes) == greatest({0} \cup {nodes[i].layer : i \in 1..Len(nodes)})

\* layout-utils.ts:617-641: the backedges, in the order of the edges
RECURSIVE routedBackedges(_, _)
routedBackedges(edges, i) ==
    IF i > Len(edges) THEN <<>>
    ELSE (IF edges[i].isBackedge
          THEN <<[from |-> edges[i].from, to |-> edges[i].to, kind |-> edges[i].kind,
                  isBackedge |-> TRUE]>>
          ELSE <<>>)
         \o routedBackedges(edges, i + 1)

\* layout-utils.ts:643-702: one edge for each chain, from the first end of
\* its first segment to the last end of its last one
RECURSIVE routedChains(_, _)
routedChains(edges, i) ==
    IF i > Len(edges) THEN <<>>
    ELSE (IF ~edges[i].isBackedge
             /\ \A j \in 1..(i - 1) :
                    edges[j].isBackedge
                    \/ edges[j].originalEdgeIndex # edges[i].originalEdgeIndex
          THEN <<[from |-> edges[i].from,
                  to |-> edges[greatest({j \in i..Len(edges) :
                                            /\ ~edges[j].isBackedge
                                            /\ edges[j].originalEdgeIndex
                                               = edges[i].originalEdgeIndex})].to,
                  kind |-> edges[i].kind,
                  isBackedge |-> FALSE]>>
          ELSE <<>>)
         \o routedChains(edges, i + 1)

\* layout-utils.ts:584-710
routeEdges(edges) == routedBackedges(edges, 1) \o routedChains(edges, 1)

\* layout.ts:337-358: a node of the result
layoutNode(p, collapsedCounts) ==
    IF startsWith(p.id, "__collapsed:")
    THEN [isCollapsedGroup |-> TRUE,
          nodeCount |-> IF SubSeq(p.id, 2, Len(p.id)) \in DOMAIN collapsedCounts
                        THEN collapsedCounts[SubSeq(p.id, 2, Len(p.id))] ELSE 0]
         @@ p
    ELSE p

\* layout.ts:337-358
RECURSIVE layoutNodes(_, _, _)
layoutNodes(positioned, collapsedCounts, i) ==
    IF i > Len(positioned) THEN <<>>
    ELSE (IF positioned[i].isDummy THEN <<>>
          ELSE <<layoutNode(positioned[i], collapsedCounts)>>)
         \o layoutNodes(positioned, collapsedCounts, i + 1)

\* layout.ts:331-362
assemble(effective, withDummies, coordinates) ==
    [tag |-> "layout",
     nodes |-> layoutNodes(coordinates.positioned, effective.collapsedCounts, 1),
     edges |-> routeEdges(withDummies.edges),
     clusters |-> computeClusters(coordinates.positioned),
     clusterOrder |-> coordinates.clusterOrder]

\* layout.ts:309-330: phases 4 and 5
arranged(effective, withDummies, previousClusterOrder, direction) ==
    assemble(effective, withDummies,
             assignCoordinates(
                 orderedLayers(withDummies.nodes,
                               orderNodes(withDummies.nodes, withDummies.edges,
                                          actualMaxLayer(withDummies.nodes),
                                          previousClusterOrder),
                               1),
                 previousClusterOrder, direction))

\* layout.ts:264-362
layoutOf(effective, previousClusterOrder, direction) ==
    arranged(effective, layered(effective), previousClusterOrder, direction)

\* layout.ts:246-363
layoutGraph(data, collapsedFiles, previousClusterOrder, direction) ==
    IF Len(data.nodes) = 0
    THEN [tag |-> "layout", nodes |-> <<>>, edges |-> <<>>, clusters |-> <<>>,
          clusterOrder |-> <<>>]
    ELSE layoutOf(effectiveData(data, collapsedFiles), previousClusterOrder, direction)

----------------------------------------------------------------------------
(* The visualiser laying out one graph again and again: the first layout   *)
(* and then toggleCollapse on one file after the other; arg.layouts counts *)
(* the calls of layoutGraph.                                               *)
(*                                                                         *)
(*   s/p: a (a source), b      s/q: c      s/r: d                          *)
(* with up to MaxLayoutEdges of the edges                                  *)
(*   a -> c, c -> d, a -> d, d -> a, a -> b, b -> c                        *)

FilePaths == {<<"s", "/", "p">>, <<"s", "/", "q">>, <<"s", "/", "r">>}

GraphNode(id, file, line, isSource) ==
    [id |-> <<id>>, filePath |-> <<"s", "/", file>>, qualifiedName |-> <<id>>,
     line |-> line, isInstrumented |-> FALSE, isSource |-> isSource, isTarget |-> FALSE]

GraphEdge(from, to, callLine) ==
    [from |-> <<from>>, to |-> <<to>>, kind |-> "direct", callLine |-> callLine]

LayoutNodes ==
    <<GraphNode("a", "p", 1, TRUE), GraphNode("b", "p", 12, FALSE),
      GraphNode("c", "q", 3, FALSE), GraphNode("d", "r", 4, FALSE)>>

LayoutEdges ==
    <<GraphEdge("a", "c", 2), GraphEdge("c", "d", 4), GraphEdge("a", "d", 3),
      GraphEdge("d", "a", 5), GraphEdge("a", "b", 4), GraphEdge("b", "c", 13)>>

\* the edges of LayoutEdges at the positions S, in their order
RECURSIVE edgesAt(_, _)
edgesAt(S, i) ==
    IF i > Len(LayoutEdges) THEN <<>>
    ELSE (IF i \in S THEN <<LayoutEdges[i]>> ELSE <<>>) \o edgesAt(S, i + 1)

GraphDatas ==
    {[nodes |-> LayoutNodes, edges |-> edgesAt(S, 1)] :
        S \in {T \in SUBSET (1..Len(LayoutEdges)) : Cardinality(T) <= MaxLayoutEdges}}

\* the orderings a first layout is given: none, and orderings that lack
\* files of the graph or name a file that has no node
PreviousOrders ==
    {<<>>,
     << <<"s", "/", "r">>, <<"s", "/", "p">> >>,
     << <<"s", "/", "q">>, <<"s", "/", "x">>, <<"s", "/", "r">> >>}

InitLayout ==
    /\ arg \in [tag : {"layout"}, data : GraphDatas, collapsedFiles : {<<>>},
                previousClusterOrder : PreviousOrders, direction : {"LR", "TB"},
                layouts : {0}]
    /\ out = NoArg
    /\ files = <<>>
    /\ includeExternal = FALSE
    /\ options = [maxDepth |-> 0, maxNodes |-> 0]
    /\ sourceIds = <<>>
    /\ targetIds = <<>>
    /\ srcIdx = 1
    /\ pc = "layout"
    /\ graph = createEmptyGraph
    /\ queue = <<>>
    /\ visited = {}
    /\ edgeKeys = {}
    /\ cur = [id |-> <<>>, depth |-> 0, i |-> 0]
    /\ depthOf = <<>>
    /\ bfsGraphs = <<>>
    /\ fullGraph = createEmptyGraph
    /\ outputGraph = createEmptyGraph

\* the first layout of the graph
FirstLayout ==
    /\ pc = "layout"
    /\ out = NoArg
    /\ out' = layoutGraph(arg.data, arg.collapsedFiles, arg.previousClusterOrder,
                         arg.direction)
    /\ arg' = [arg EXCEPT !.layouts = 1]
    /\ UNCHANGED build

\* render.ts:1461-1465, toggleCollapse: `collapsedFiles.delete(filePath)` or
\* `collapsedFiles.add(filePath)` on the set in insertion order
toggled(collapsedFiles, filePath) ==
    IF \E i \in 1..Len(collapsedFiles) : collapsedFiles[i] = filePath
    THEN filterIn(collapsedFiles, {filePath}, FALSE)
    ELSE Append(collapsedFiles, filePath)

\* render.ts:1460-1467 and 1577-1589, toggleCollapse(filePath) and relayout()
ToggleCollapse ==
    /\ pc = "layout"
    /\ out # NoArg
    /\ arg.layouts < MaxLayouts
    /\ \E filePath \in FilePaths :
          /\ arg' = [arg EXCEPT !.collapsedFiles = toggled(@, filePath),
                                !.previousClusterOrder = out.clusterOrder,
                                !.layouts = @ + 1]
          /\ out' = layoutGraph(arg.data, toggled(arg.collapsedFiles, filePath),
                               out.clusterOrder, arg.direction)
    /\ UNCHANGED build

NextLayout == FirstLayout \/ ToggleCollapse

SpecLayout == InitLayout /\ [][NextLayout]_vars

----------------------------------------------------------------------------
(* C18: longest-path layering.                                             *)

\* the sources of the incoming edges of id that are no backedges
incomingSources(edges, backedgeSet, id) ==
    {edges[i].from : i \in {j \in 1..Len(edges) :
                               edges[j].to = id /\ (j - 1) \notin backedgeSet}}

\* every laid-out node is in layer 0 or one above its highest predecessor
longestPathLayers(nodes, edges, backedgeSet) ==
    \A k \in 1..Len(nodes) :
        nodes[k].layer
        = IF incomingSources(edges, backedgeSet, nodes[k].id) = {} THEN 0
          ELSE 1 + greatest({nodeOf(nodes, s).layer :
                                s \in incomingSources(edges, backedgeSet, nodes[k].id)})

\* the same on the data the layout ran on
longestPathIn(nodes, data) ==
    longestPathLayers(nodes, data.edges,
                      detectBackedges(idsOf(data.nodes), data.edges,
                                      sourceNodesOf(data.nodes)))

\* every edge of the result that is no backedge goes to a higher layer
forwardEdgesRise(nodes, edges) ==
    \A i \in 1..Len(edges) :
        edges[i].isBackedge
        \/ nodeOf(nodes, edges[i].from).layer < nodeOf(nodes, edges[i].to).layer

\* C18: in every layoutGraph run, each node's layer is 0 when it has no
\* incoming non-backedge and otherwise one more than the largest layer among
\* the sources of its incoming non-backedges; hence every non-backedge goes
\* from a lower layer to a strictly higher one.
C18_LongestPathLayers ==
    out.tag = "layout"
    => /\ longestPathIn(out.nodes, effectiveData(arg.data, arg.collapsedFiles).data)
       /\ forwardEdgesRise(out.nodes, out.edges)

\* a layout in which a node of layer 2 has an incoming edge from layer 0
\* and one from layer 1
C18_Witness ==
    /\ out.tag = "layout"
    /\ \E i, j \in 1..Len(out.edges) :
          /\ ~out.edges[i].isBackedge
          /\ ~out.edges[j].isBackedge
          /\ out.edges[i].to = out.edges[j].to
          /\ nodeOf(out.nodes, out.edges[i].to).layer = 2
          /\ nodeOf(out.nodes, out.edges[i].from).layer = 0
          /\ nodeOf(out.nodes, out.edges[j].from).layer = 1

----------------------------------------------------------------------------
(* C20: the cluster order against the previous ordering.                   *)

\* no element of s occurs twice
duplicateFree(s) == \A i, j \in 1..Len(s) : s[i] = s[j] => i = j

\* the files of the nodes of a layout
filesOf(nodes) == {nodes[i].original.filePath : i \in 1..Len(nodes)}

\* the elements of s that are also in previous are in the order of previous
keepsOrderOf(s, previous) ==
    \A i, j \in 1..Len(s) :
        (/\ i < j
         /\ indexIn(previous, s[i]) # -1
         /\ indexIn(previous, s[j]) # -1)
        => indexIn(previous, s[i]) < indexIn(previous, s[j])

\* C20: when assignCoordinates is given a duplicate-free previous ordering,
\* the clusterOrder it returns lists each file that has a laid-out node
\* exactly once, omits every file that has none, and keeps the files that
\* were also in the previous ordering in their previous relative order, the
\* newly appeared files being inserted among them.
C20_ClusterOrderFromPrevious ==
    (out.tag = "layout" /\ duplicateFree(arg.previousClusterOrder))
    => /\ duplicateFree(out.clusterOrder)
       /\ seqToSet(out.clusterOrder) = filesOf(out.nodes)
       /\ keepsOrderOf(out.clusterOrder, arg.previousClusterOrder)

\* a layout given an ordering of two files of the graph around a file that
\* has no node, and lacking a file of the graph
C20_Witness ==
    /\ out.tag = "layout"
    /\ \E i \in 1..Len(arg.previousClusterOrder) :
          arg.previousClusterOrder[i] \notin filesOf(out.nodes)
    /\ \E f \in filesOf(out.nodes) :
          /\ indexIn(arg.previousClusterOrder, f) = -1
          /\ indexIn(out.clusterOrder, f) # -1
    /\ \E f, g \in filesOf(out.nodes) :
          /\ f # g
          /\ indexIn(arg.previousClusterOrder, f) # -1
          /\ indexIn(arg.previousClusterOrder, g) # -1

----------------------------------------------------------------------------
(* C19: cluster stability over toggleCollapse.                             *)

\* the position of the cluster of filePath on the cross axis, in half pixels
clusterCross(clusters, direction, filePath) ==
    IF direction = "LR"
    THEN (CHOOSE c \in seqToSet(clusters) : c.filePath = filePath).y
    ELSE (CHOOSE c \in seqToSet(clusters) : c.filePath = filePath).x

\* the files that have a cluster
clustered(clusters) == {clusters[k].filePath : k \in 1..Len(clusters)}

\* the files of S are in the same order on the cross axis in both layouts
sameCrossOrder(S, before, after, direction) ==
    \A f, g \in S \cap clustered(before) \cap clustered(after) :
        (clusterCross(before, direction, f) < clusterCross(before, direction, g))
        <=> (clusterCross(after, direction, f) < clusterCross(after, direction, g))

\* the files whose collapsed state differs between two sets of collapsed files
toggledBetween(before, after) ==
    {f \in FilePaths : (f \in seqToSet(before)) # (f \in seqToSet(after))}

\* a layout is followed by the layout with one file toggled
Relayout ==
    /\ out.tag = "layout"
    /\ out'.tag = "layout"
    /\ arg'.previousClusterOrder = out.clusterOrder
    /\ Cardinality(toggledBetween(arg.collapsedFiles, arg'.collapsedFiles)) = 1

\* C19: in a sequence of layoutGraph calls in which each call receives the
\* clusterOrder returned by the call before and differs from it only by one
\* file's collapsed state being toggled, all other files keep the same
\* relative cross-axis order of their clusters from each layout to the next,
\* hence in every layout of the sequence.
C19_ClusterStability ==
    [][Relayout
       => sameCrossOrder(FilePaths \ toggledBetween(arg.collapsedFiles, arg'.collapsedFiles),
                         out.clusters, out'.clusters, arg.direction)]_vars

\* a re-layout with a file collapsed whose three clusters are not in the
\* order in which the scan of the layers meets them
C19_Witness ==
    /\ out.tag = "layout"
    /\ arg.layouts >= 2
    /\ Len(arg.collapsedFiles) > 0
    /\ Len(out.clusters) = 3
    /\ arg.previousClusterOrder = out.clusterOrder
    /\ \E k \in 1..Len(out.clusters) : out.clusters[k].filePath # out.clusterOrder[k]

----------------------------------------------------------------------------
(* Object identity.  A JavaScript object is a record with its identity in  *)
(* the field `at`; two records with one `at` are one object, so that a     *)
(* write to a field of an object is seen wherever the object is held.      *)
(* `addNode(sliced, node)` and `addEdge(sliced, edge)` put the objects of  *)
(* the input into the slice, and `original: node` puts the node of the     *)
(* input into the layout; the containers (Map, array) of a result and the  *)
(* synthetic nodes of collapsed files are new and have no `at`.            *)

\* the objects of s, the i-th one at base + i
RECURSIVE allocated(_, _, _)
allocated(s, base, i) ==
    IF i > Len(s) THEN <<>>
    ELSE <<[at |-> base + i] @@ s[i]>> \o allocated(s, base, i + 1)

\* the graph of the tests as objects: the three nodes, then the edges
RECURSIVE withObjects(_, _, _, _)
withObjects(g, nodes, edges, i) ==
    IF i <= Len(nodes) THEN withObjects(addNode(g, nodes[i]), nodes, edges, i + 1)
    ELSE IF i <= Len(nodes) + Len(edges)
    THEN withObjects(addEdge(g, edges[i - Len(nodes)]), nodes, edges, i + 1)
    ELSE g

RECURSIVE madeEdges(_, _)
madeEdges(pairs, i) ==
    IF i > Len(pairs) THEN <<>>
    ELSE <<makeEdge(pairs[i][1], pairs[i][2], i)>> \o madeEdges(pairs, i + 1)

sharedGraph(pairs) ==
    withObjects(createEmptyGraph,
                allocated(<<makeNode(NodeA, 1), makeNode(NodeB, 1), makeNode(NodeC, 1)>>, 0, 1),
                allocated(madeEdges(pairs, 1), Len(SliceNodes), 1),
                1)

\* the graph data of the visualiser as objects
sharedData(data) ==
    [nodes |-> allocated(data.nodes, 0, 1),
     edges |-> allocated(data.edges, Len(data.nodes), 1)]

\* `node.isInstrumented = true` on the object at `at`, seen through s
RECURSIVE nodesWritten(_, _, _)
nodesWritten(s, at, i) ==
    IF i > Len(s) THEN <<>>
    ELSE <<IF "at" \in DOMAIN s[i] /\ s[i].at = at
           THEN [s[i] EXCEPT !.isInstrumented = TRUE] ELSE s[i]>>
         \o nodesWritten(s, at, i + 1)

\* `edge.callLine = 0` on the object at `at`, seen through s
RECURSIVE edgesWritten(_, _, _)
edgesWritten(s, at, i) ==
    IF i > Len(s) THEN <<>>
    ELSE <<IF "at" \in DOMAIN s[i] /\ s[i].at = at
           THEN [s[i] EXCEPT !.callLine = 0] ELSE s[i]>>
         \o edgesWritten(s, at, i + 1)

\* a call graph after the write to the node at `at`
graphNodeWritten(g, at) == [g EXCEPT !.nodes = nodesWritten(@, at, 1)]

\* a call graph after the write to the edge at `at`
graphEdgeWritten(g, at) ==
    [g EXCEPT !.edges = edgesWritten(@, at, 1),
              !.forwardEdges = [k \in DOMAIN @ |-> edgesWritten(@[k], at, 1)],
              !.reverseEdges = [k \in DOMAIN @ |-> edgesWritten(@[k], at, 1)]]

\* the nodes of a layout after the write to the node at `at`
RECURSIVE originalsWritten(_, _, _)
originalsWritten(s, at, i) ==
    IF i > Len(s) THEN <<>>
    ELSE <<[s[i] EXCEPT !.original = nodesWritten(<<@>>, at, 1)[1]]>>
         \o originalsWritten(s, at, i + 1)

\* the graph data after the write to the node at `at`
dataNodeWritten(data, at) == [data EXCEPT !.nodes = nodesWritten(@, at, 1)]

----------------------------------------------------------------------------
(* A client that calls sliceGraph or layoutGraph on a graph and then       *)
(* writes once to an object it finds in the returned value.  arg.given is  *)
(* the input as it was before the call, out.input the input as it is.      *)

InitAlias ==
    /\ arg \in [tag : {"alias"}, by : {"sliceGraph"},
                given : {sharedGraph(pairs) : pairs \in SeqsUpTo(EdgePairs, MaxEdges)},
                collapsedFiles : {<<>>}]
              \cup
              [tag : {"alias"}, by : {"layoutGraph"},
               given : {sharedData(data) : data \in GraphDatas},
               collapsedFiles : {<<>>, << <<"s", "/", "q">> >>}]
    /\ out = NoArg
    /\ files = <<>>
    /\ includeExternal = FALSE
    /\ options = [maxDepth |-> 0, maxNodes |-> 0]
    /\ sourceIds = <<>>
    /\ targetIds = <<>>
    /\ srcIdx = 1
    /\ pc = "alias"
    /\ graph = createEmptyGraph
    /\ queue = <<>>
    /\ visited = {}
    /\ edgeKeys = {}
    /\ cur = [id |-> <<>>, depth |-> 0, i |-> 0]
    /\ depthOf = <<>>
    /\ bfsGraphs = <<>>
    /\ fullGraph = createEmptyGraph
    /\ outputGraph = createEmptyGraph

\* `const sliced = sliceGraph(graph, [A], [C])`
SliceShared ==
    /\ pc = "alias"
    /\ out = NoArg
    /\ arg.by = "sliceGraph"
    /\ out' = [tag |-> "returned", input |-> arg.given, writes |-> 0,
               val |-> sliceGraph(arg.given, <<NodeA>>, <<NodeC>>)]
    /\ UNCHANGED <<build, arg>>

\* `const layout = layoutGraph(data, collapsedFiles)`
LayoutShared ==
    /\ pc = "alias"
    /\ out = NoArg
    /\ arg.by = "layoutGraph"
    /\ out' = [tag |-> "returned", input |-> arg.given, writes |-> 0,
               val |-> layoutGraph(arg.given, arg.collapsedFiles, <<>>, "LR")]
    /\ UNCHANGED <<build, arg>>

\* `sliced.nodes.get(id).isInstrumented = true`
WriteSlicedNode ==
    /\ pc = "alias"
    /\ out.tag = "returned"
    /\ arg.by = "sliceGraph"
    /\ out.writes = 0
    /\ \E k \in 1..Len(out.val.nodes) :
          out' = [out EXCEPT !.writes = 1,
                             !.val = graphNodeWritten(@, out.val.nodes[k].at),
                             !.input = graphNodeWritten(@, out.val.nodes[k].at)]
    /\ UNCHANGED <<build, arg>>

\* `sliced.edges[k].callLine = 0`
WriteSlicedEdge ==
    /\ pc = "alias"
    /\ out.tag = "returned"
    /\ arg.by = "sliceGraph"
    /\ out.writes = 0
    /\ \E k \in 1..Len(out.val.edges) :
          out' = [out EXCEPT !.writes = 1,
                             !.val = graphEdgeWritten(@, out.val.edges[k].at),
                             !.input = graphEdgeWritten(@, out.val.edges[k].at)]
    /\ UNCHANGED <<build, arg>>

\* `layout.nodes[k].original.isInstrumented = true`
WriteLayoutOriginal ==
    /\ pc = "alias"
    /\ out.tag = "returned"
    /\ arg.by = "layoutGraph"
    /\ out.writes = 0
    /\ \E k \in 1..Len(out.val.nodes) :
          /\ "at" \in DOMAIN out.val.nodes[k].original
          /\ out' = [out EXCEPT
                        !.writes = 1,
                        !.val = [@ EXCEPT !.nodes = originalsWritten(
                                                        @, out.val.nodes[k].original.at, 1)],
                        !.input = dataNodeWritten(@, out.val.nodes[k].original.at)]
    /\ UNCHANGED <<build, arg>>

NextAlias ==
    SliceShared \/ LayoutShared \/ WriteSlicedNode \/ WriteSlicedEdge \/ WriteLayoutOriginal

SpecAlias == InitAlias /\ [][NextAlias]_vars

\* C13: sliceGraph and layoutGraph never modify the graph they are given:
\* after either call the input's nodes, edges and adjacency are the same as
\* before, and later changes to the returned value do not change the input.
C13_InputIndependent == out.tag = "returned" => out.input = arg.given

----------------------------------------------------------------------------
(* C21: the edges after preprocessCollapsed.                               *)

\* the ids of the nodes whose file is collapsed
idsInCollapsed(nodes, collapsedFiles) ==
    {nodes[i].id : i \in {j \in 1..Len(nodes) : nodes[j].filePath \in seqToSet(collapsedFiles)}}

\* where an end of an edge is to be after the collapse
collapsedEnd(nodes, collapsedFiles, id) ==
    IF id \in idsInCollapsed(nodes, collapsedFiles)
    THEN collapsedId(nodeOf(nodes, id).filePath)
    ELSE id

\* the edges `after` are the edges `before` with their ends replaced, the
\* loops dropped, and one edge for each pair of ends and kind
collapsedEdgesOf(nodes, collapsedFiles, before, after) ==
    /\ \A i \in 1..Len(after) :
          /\ after[i].from \notin idsInCollapsed(nodes, collapsedFiles)
          /\ after[i].to \notin idsInCollapsed(nodes, collapsedFiles)
          /\ after[i].from # after[i].to
          /\ \E k \in 1..Len(before) :
                /\ after[i].from = collapsedEnd(nodes, collapsedFiles, before[k].from)
                /\ after[i].to = collapsedEnd(nodes, collapsedFiles, before[k].to)
                /\ after[i].kind = before[k].kind
    /\ \A k \in 1..Len(before) :
          collapsedEnd(nodes, collapsedFiles, before[k].from)
              # collapsedEnd(nodes, collapsedFiles, before[k].to)
          => \E i \in 1..Len(after) :
                /\ after[i].from = collapsedEnd(nodes, collapsedFiles, before[k].from)
                /\ after[i].to = collapsedEnd(nodes, collapsedFiles, before[k].to)
                /\ after[i].kind = before[k].kind
    /\ \A i, j \in 1..Len(after) :
          (/\ after[i].from = after[j].from
           /\ after[i].to = after[j].to
           /\ after[i].kind = after[j].kind)
          => i = j

\* C21: after preprocessCollapsed(data, collapsedFiles), every edge endpoint
\* that was a node of a collapsed file is replaced by that file's synthetic
\* node `__collapsed:<filePath>`, and the resulting edge list contains no
\* edge whose two endpoints are equal and no two edges with the same
\* endpoints and kind.
C21_CollapsedEdges ==
    (out.tag = "layout" /\ Len(arg.collapsedFiles) > 0)
    => collapsedEdgesOf(arg.data.nodes, arg.collapsedFiles, arg.data.edges,
                        preprocessCollapsed(arg.data, arg.collapsedFiles).data.edges)

\* a layout with a file collapsed that has an edge inside it and two edges
\* to one node outside it
C21_Witness ==
    /\ out.tag = "layout"
    /\ Len(arg.collapsedFiles) > 0
    /\ \E i, j, k \in 1..Len(arg.data.edges) :
          /\ i # j
          /\ arg.data.edges[i].from \in idsInCollapsed(arg.data.nodes, arg.collapsedFiles)
          /\ arg.data.edges[j].from \in idsInCollapsed(arg.data.nodes, arg.collapsedFiles)
          /\ arg.data.edges[i].from # arg.data.edges[j].from
          /\ arg.data.edges[i].to = arg.data.edges[j].to
          /\ arg.data.edges[i].to \notin idsInCollapsed(arg.data.nodes, arg.collapsedFiles)
          /\ arg.data.edges[k].from \in idsInCollapsed(arg.data.nodes, arg.collapsedFiles)
          /\ arg.data.edges[k].to \in idsInCollapsed(arg.data.nodes, arg.collapsedFiles)
    /\ Len(preprocessCollapsed(arg.data, arg.collapsedFiles).data.edges) = 1

----------------------------------------------------------------------------
(* createDummyNodes on layered graphs of three nodes in two files: x in    *)
(* layer 0, y and z in layers up to MaxSpan, up to MaxDummyEdges edges,    *)
(* each a backedge or an edge to a higher layer.                           *)

\* layout.test.ts makeInternalNode
makeInternalNode(id, layer, file) ==
    [id |-> <<id>>,
     original |-> [id |-> <<id>>, filePath |-> <<"s", "/", file>>, qualifiedName |-> <<id>>,
                   line |-> 1, isInstrumented |-> FALSE, isSource |-> FALSE,
                   isTarget |-> FALSE],
     isDummy |-> FALSE,
     layer |-> layer,
     filePath |-> <<"s", "/", file>>,
     collapsedCount |-> -1]

\* layout.test.ts makeInternalEdge
makeInternalEdge(from, to, index, isBackedge) ==
    [from |-> from, to |-> to, kind |-> "direct", isBackedge |-> isBackedge,
     originalEdgeIndex |-> index]

LayeredNodes ==
    {<<makeInternalNode("x", 0, "p"), makeInternalNode("y", ly, "q"),
       makeInternalNode("z", lz, "p")>> : ly \in 1..MaxSpan, lz \in 1..MaxSpan}

\* the edges between the nodes: backedges anywhere, other edges upwards
LayeredEdges(nodes) ==
    {<<t[1].id, t[2].id, t[3]>> :
        t \in {u \in seqToSet(nodes) \X seqToSet(nodes) \X BOOLEAN :
                  u[3] \/ u[1].layer < u[2].layer}}

\* the internal edges of a list of <<from, to, isBackedge>>, from the i-th on
RECURSIVE indexedEdges(_, _)
indexedEdges(s, i) ==
    IF i > Len(s) THEN <<>>
    ELSE <<makeInternalEdge(s[i][1], s[i][2], i - 1, s[i][3])>> \o indexedEdges(s, i + 1)

InitDummies ==
    /\ \E ns \in LayeredNodes :
          \E s \in SeqsUpTo(LayeredEdges(ns), MaxDummyEdges) :
              arg = [tag |-> "createDummyNodes", nodes |-> ns, edges |-> indexedEdges(s, 1)]
    /\ out = NoArg
    /\ files = <<>>
    /\ includeExternal = FALSE
    /\ options = [maxDepth |-> 0, maxNodes |-> 0]
    /\ sourceIds = <<>>
    /\ targetIds = <<>>
    /\ srcIdx = 1
    /\ pc = "dummies"
    /\ graph = createEmptyGraph
    /\ queue = <<>>
    /\ visited = {}
    /\ edgeKeys = {}
    /\ cur = [id |-> <<>>, depth |-> 0, i |-> 0]
    /\ depthOf = <<>>
    /\ bfsGraphs = <<>>
    /\ fullGraph = createEmptyGraph
    /\ outputGraph = createEmptyGraph

ApplyCreateDummyNodes ==
    /\ pc = "dummies"
    /\ out = NoArg
    /\ out' = [tag |-> "dummies", val |-> createDummyNodes(arg.nodes, arg.edges)]
    /\ UNCHANGED <<build, arg>>

NextDummies == ApplyCreateDummyNodes

SpecDummies == InitDummies /\ [][NextDummies]_vars

\* the edges of s that are backedges, in their order
RECURSIVE backedgesOf(_, _)
backedgesOf(s, i) ==
    IF i > Len(s) THEN <<>>
    ELSE (IF s[i].isBackedge THEN <<s[i]>> ELSE <<>>) \o backedgesOf(s, i + 1)

\* the segments of s that come from the edge with the given index
RECURSIVE segmentsOf(_, _, _)
segmentsOf(s, index, i) ==
    IF i > Len(s) THEN <<>>
    ELSE (IF ~s[i].isBackedge /\ s[i].originalEdgeIndex = index THEN <<s[i]>> ELSE <<>>)
         \o segmentsOf(s, index, i + 1)

\* chain leads from the source of edge to its target, one layer at a time,
\* through dummies that carry the file path of the source
chainOf(nodes, edge, chain) ==
    /\ Len(chain) = nodeOf(nodes, edge.to).layer - nodeOf(nodes, edge.from).layer
    /\ chain[1].from = edge.from
    /\ chain[Len(chain)].to = edge.to
    /\ \A k \in 1..Len(chain) :
          /\ chain[k].kind = edge.kind
          /\ nodeOf(nodes, chain[k].to).layer = nodeOf(nodes, chain[k].from).layer + 1
    /\ \A k \in 1..(Len(chain) - 1) :
          /\ chain[k + 1].from = chain[k].to
          /\ nodeOf(nodes, chain[k].to).isDummy
          /\ nodeOf(nodes, chain[k].to).filePath = nodeOf(nodes, edge.from).filePath

\* every dummy is on the chain of an edge
dummiesOnChains(nodes, edges) ==
    \A i \in 1..Len(nodes) :
        nodes[i].isDummy
        => \E k \in 1..Len(edges) : ~edges[k].isBackedge /\ edges[k].to = nodes[i].id

\* C22: after createDummyNodes on a layered graph, every non-backedge
\* segment joins two nodes in consecutive layers (an edge spanning N layers
\* becomes a chain through N-1 dummies, one per intermediate layer),
\* backedges pass through unchanged, and every dummy carries the file path
\* of the original edge's source node.
C22_DummyChains ==
    out.tag = "dummies"
    => /\ \A i \in 1..Len(arg.edges) :
             arg.edges[i].isBackedge
             \/ chainOf(out.val.nodes, arg.edges[i],
                        segmentsOf(out.val.edges, arg.edges[i].originalEdgeIndex, 1))
       /\ \A k \in 1..Len(out.val.edges) :
             out.val.edges[k].isBackedge
             \/ nodeOf(out.val.nodes, out.val.edges[k].to).layer
                = nodeOf(out.val.nodes, out.val.edges[k].from).layer + 1
       /\ backedgesOf(out.val.edges, 1) = backedgesOf(arg.edges, 1)
       /\ SubSeq(out.val.nodes, 1, Len(arg.nodes)) = arg.nodes
       /\ dummiesOnChains(out.val.nodes, out.val.edges)

\* a graph with a backedge and an edge over three layers, split in three
C22_Witness ==
    /\ out.tag = "dummies"
    /\ \E i, j \in 1..Len(arg.edges) :
          /\ arg.edges[i].isBackedge
          /\ ~arg.edges[j].isBackedge
          /\ nodeOf(arg.nodes, arg.edges[j].to).layer
             - nodeOf(arg.nodes, arg.edges[j].from).layer = 3
          /\ Len(segmentsOf(out.val.edges, arg.edges[j].originalEdgeIndex, 1)) = 3
    /\ Len(out.val.nodes) = Len(arg.nodes) + 2

----------------------------------------------------------------------------
(* resolveCallSite on one call site of main.                               *)
(*                                                                         *)
(*   a.ts  import { h, K } from './b'; import * as ns from './b';          *)
(*         export function main(<DI defaults>) { <callSite> }              *)
(*         function loc() {}                                               *)
(*         class L { static s() {} }                                       *)
(*         const Api = { run: loc };  const x = new K();                   *)
(*                                                                         *)
(* The caller's file is what parseSource returns (arg.bindings "absent")  *)
(* or a ParsedFile with the instanceBindings its type declares ("present"). *)

StrategyShapes ==
    {Named("loc"), Named("h"), Named("nope"),
     Member("deps", "k"), Member("K", "m"), Member("ns", "h"), Member("x", "m"),
     Member("L", "s"), Member("Api", "run"), Member("console", "log")}

\* no DI default; main(deps = { k: h }); main(K = { m: loc }), the parameter
\* hiding the import
StrategyDefaults ==
    {<<>>, <<DiLocal("deps", "k", "h")>>, <<DiLocal("K", "m", "loc")>>}

StrategyFile(callSite, diDefaults) ==
    [readable |-> TRUE,
     functions |-> <<Fn(<<"main">>, 10, <<callSite>>, diDefaults),
                     Fn(<<"loc">>, 20, <<>>, <<>>),
                     Fn(<<"L", ".", "s">>, 30, <<>>, <<>>)>>,
     imports |-> <<Import("h", "h", <<".", "/", "b">>, FALSE),
                   Import("K", "K", <<".", "/", "b">>, FALSE),
                   Import("ns", "*", <<".", "/", "b">>, TRUE)>>,
     reExports |-> <<>>,
     exportedNames |-> (<<"main">> :> <<"main">>),
     objectPropertyBindings |-> (<<"Api", ".", "run">> :> <<"loc">>)]

\* the ParsedFile of a.ts the resolver is given
callerFileOf(bindings) ==
    IF bindings = "present"
    THEN withInstanceBindings(parseSource(A, files[A]), (<<"x">> :> <<"K">>))
    ELSE parseSource(A, files[A])

InitCallSite ==
    /\ \E callSite \in StrategyShapes, diDefaults \in StrategyDefaults,
          bState \in {"ok", "unreadable", "missing"} :
          files = (A :> StrategyFile(callSite, diDefaults))
                  @@ (IF bState = "missing" THEN <<>>
                      ELSE (B :> [FileB(<<>>) EXCEPT !.readable = (bState = "ok")]))
    /\ arg \in [tag : {"resolveCallSite"}, bindings : {"absent", "present"}]
    /\ out = NoArg
    /\ includeExternal = FALSE
    /\ options = [maxDepth |-> 0, maxNodes |-> 0]
    /\ sourceIds = <<>>
    /\ targetIds = <<>>
    /\ srcIdx = 1
    /\ pc = "callSite"
    /\ graph = createEmptyGraph
    /\ queue = <<>>
    /\ visited = {}
    /\ edgeKeys = {}
    /\ cur = [id |-> <<>>, depth |-> 0, i |-> 0]
    /\ depthOf = <<>>
    /\ bfsGraphs = <<>>
    /\ fullGraph = createEmptyGraph
    /\ outputGraph = createEmptyGraph

\* resolver.resolveCallSite(callSite, callerFile, main)
ApplyResolveCallSite ==
    /\ pc = "callSite"
    /\ out = NoArg
    /\ out' = resolveCallSite(files[A].functions[1].callSites[1],
                              callerFileOf(arg.bindings), files[A].functions[1], 0)
    /\ UNCHANGED <<build, arg>>

NextCallSite == ApplyResolveCallSite

SpecCallSite == InitCallSite /\ [][NextCallSite]_vars

\* what each strategy finds for the call site, in the order of the claim
strategyResults(callSite, callerFile, callerFunction) ==
    IF callSite.calleeName # <<>>
    THEN <<resolveSimpleCallLocal(callSite.calleeName, callerFile),
           resolveSimpleCallImport(callSite.calleeName, callerFile, 1),
           resolveSimpleCallDi(callSite.calleeName, callerFile, callerFunction, 1, 1)>>
    ELSE <<propertyDiDefaults(callSite.objectName, callSite.propertyName, callerFile,
                              callerFunction, 1, 1),
           propertyImport(callSite.objectName, callSite.propertyName, callerFile, 1),
           propertyInstance(callSite.objectName, callSite.propertyName, callerFile, 1),
           propertyLocalClass(callSite.objectName, callSite.propertyName, callerFile),
           propertyCtorField(callSite.objectName, callSite.propertyName, callerFile,
                             callerFunction, 1),
           propertyBinding(callSite.objectName, callSite.propertyName, callerFile)>>

\* the result is that of the first strategy of `results` that succeeds
firstSuccessIs(results, result) ==
    \A k \in 1..Len(results) :
        (results[k].tag = "ok" /\ \A j \in 1..(k - 1) : results[j].tag # "ok")
        => result = results[k]

\* C23: for every call site, resolveCallSite returns the result of the first
\* strategy that succeeds in the order - named calls: local function, import,
\* DI default; member calls: DI default, imported namespace or imported
\* identifier, instance binding, local class, constructor field indirection,
\* object-literal binding - and never the result of a later strategy when an
\* earlier one succeeds.
C23_FirstStrategyWins ==
    pc = "callSite" /\ out # NoArg
    => firstSuccessIs(strategyResults(files[A].functions[1].callSites[1],
                                      callerFileOf(arg.bindings), files[A].functions[1]),
                      out)

----------------------------------------------------------------------------
(* The build on a file whose DI default names an import.                   *)
(*                                                                         *)
(*   a.ts  import { h } from './b'; import { ext } from 'lib';             *)
(*         export function main(deps = { k: <h or ext> }) { <calls> }      *)
(*   b.ts  export function h() {}                                          *)
(*                                                                         *)
(* `lib` is not installed.                                                 *)

DiShapes == {Named("h"), Named("ext"), Named("nope"), Member("deps", "k")}

DiFile(calls, localRef) ==
    [readable |-> TRUE,
     functions |-> <<Fn(<<"main">>, 10, calls, <<DiLocal("deps", "k", localRef)>>)>>,
     imports |-> <<Import("h", "h", <<".", "/", "b">>, FALSE),
                   Import("ext", "ext", <<"lib">>, FALSE)>>,
     reExports |-> <<>>,
     exportedNames |-> (<<"main">> :> <<"main">>),
     objectPropertyBindings |-> <<>>]

InitDi ==
    /\ \E calls \in SeqsUpTo(DiShapes, MaxCallSites), localRef \in {"h", "ext"} :
          files = (A :> DiFile(calls, localRef)) @@ (B :> FileB(<<>>))
    /\ includeExternal \in BOOLEAN
    /\ options \in [maxDepth : 1..MaxDepthBound, maxNodes : 1..MaxNodesBound]
    /\ sourceIds = <<makeFunctionId(A, <<"main">>)>>
    /\ targetIds = <<makeFunctionId(B, <<"h">>)>>
    /\ srcIdx = 1
    /\ pc = "start"
    /\ graph = createEmptyGraph
    /\ queue = <<>>
    /\ visited = {}
    /\ edgeKeys = {}
    /\ cur = [id |-> <<>>, depth |-> 0, i |-> 0]
    /\ depthOf = <<>>
    /\ bfsGraphs = <<>>
    /\ fullGraph = createEmptyGraph
    /\ outputGraph = createEmptyGraph
    /\ arg = NoArg
    /\ out = NoArg

SpecDi == InitDi /\ [][Next]_vars

\* C24: in every graph built with includeExternal enabled, every edge whose
\* callee is an external node has edge kind external.
C24_ExternalEdgeKind ==
    includeExternal =>
        \A g \in allGraphs : \A e \in edgesOf(g) :
            isExternalNode(g, e.calleeId) => e.kind = "external"

----------------------------------------------------------------------------
(* parser.ts: the module-level call sites.  A source text is the list of   *)
(* its top-level statements, each a syntax tree of nodes [kind, line, ...]  *)
(* with the children ts.forEachChild visits in `children`.                 *)

Identifier(text) == [kind |-> "Identifier", text |-> <<text>>, children |-> <<>>]

PropertyAccess(obj, name) ==
    [kind |-> "PropertyAccessExpression", expression |-> Identifier(obj), name |-> <<name>>,
     children |-> <<Identifier(obj)>>]

\* callee(arguments) on the given line
CallExpr(callee, arguments, line) ==
    [kind |-> "CallExpression", expression |-> callee, arguments |-> arguments,
     line |-> line, children |-> <<callee>> \o arguments]

Block(statements) == [kind |-> "Block", children |-> statements]

ArrowFunction(body) == [kind |-> "ArrowFunction", body |-> body, children |-> <<body>>]

ExpressionStatement(expression) ==
    [kind |-> "ExpressionStatement", children |-> <<expression>>]

\* the top-level statements of the tests, the statement on line `line`:
\*   setup();
\*   app.action((opts) => { run(opts); });
\*   for (const entry of ENTRIES) { register(entry); }
\*   if (isDev()) { enableDebug(); }
\*   const app = createApp();
\*   function hello() { inner(); }
StatementKinds == {"call", "callback", "for-of", "if", "const", "function"}

Statement(shape, line) ==
    IF shape = "call"
    THEN ExpressionStatement(CallExpr(Identifier("setup"), <<>>, line))
    ELSE IF shape = "callback"
    THEN ExpressionStatement(
             CallExpr(PropertyAccess("app", "action"),
                      <<ArrowFunction(Block(<<ExpressionStatement(
                            CallExpr(Identifier("run"), <<Identifier("opts")>>, line + 1))>>))>>,
                      line))
    ELSE IF shape = "for-of"
    THEN [kind |-> "ForOfStatement",
          children |-> <<Identifier("ENTRIES"),
                         Block(<<ExpressionStatement(
                             CallExpr(Identifier("register"), <<Identifier("entry")>>,
                                      line + 1))>>)>>]
    ELSE IF shape = "if"
    THEN [kind |-> "IfStatement",
          children |-> <<CallExpr(Identifier("isDev"), <<>>, line),
                         Block(<<ExpressionStatement(
                             CallExpr(Identifier("enableDebug"), <<>>, line + 1))>>)>>]
    ELSE IF shape = "const"
    THEN [kind |-> "VariableStatement",
          children |-> <<CallExpr(Identifier("createApp"), <<>>, line)>>]
    ELSE [kind |-> "FunctionDeclaration",
          children |-> <<Block(<<ExpressionStatement(
                             CallExpr(Identifier("inner"), <<>>, line + 1))>>)>>]

\* parser.ts:537-543: the nodes that open a scope of their own
isScope(node) ==
    node.kind \in {"FunctionDeclaration", "FunctionExpression", "ArrowFunction",
                   "ClassDeclaration", "ClassExpression"}

\* parser.ts:613-643, extractCallSiteFromCallExpression
extractCallSiteFromCallExpression(node) ==
    IF node.expression.kind = "Identifier"
    THEN <<[calleeName |-> node.expression.text, objectName |-> <<>>,
            propertyName |-> <<>>, line |-> node.line]>>
    ELSE IF node.expression.kind = "PropertyAccessExpression"
            /\ node.expression.expression.kind = "Identifier"
    THEN <<[calleeName |-> <<>>, objectName |-> node.expression.expression.text,
            propertyName |-> node.expression.name, line |-> node.line]>>
    ELSE <<>>

RECURSIVE extractCallSites(_)
RECURSIVE extractFromArguments(_, _)
RECURSIVE extractFromChildren(_, _)

\* parser.ts:555-567: the arguments of a call; a callback is entered
extractFromArguments(arguments, i) ==
    IF i > Len(arguments) THEN <<>>
    ELSE (IF arguments[i].kind \in {"ArrowFunction", "FunctionExpression"}
          THEN extractCallSites(arguments[i].body)
          ELSE extractCallSites(arguments[i]))
         \o extractFromArguments(arguments, i + 1)

\* parser.ts:601, `ts.forEachChild(node, (child) => extractCallSites(child, ...))`
extractFromChildren(children, i) ==
    IF i > Len(children) THEN <<>>
    ELSE extractCallSites(children[i]) \o extractFromChildren(children, i + 1)

\* parser.ts:530-602: the call sites pushed on `out` for a node
extractCallSites(node) ==
    IF isScope(node) THEN <<>>
    ELSE IF node.kind = "CallExpression"
    THEN extractCallSiteFromCallExpression(node)
         \o extractFromArguments(node.arguments, 1)
         \o extractCallSites(node.expression)
    ELSE extractFromChildren(node.children, 1)

\* parser.ts:271, `ts.isExpressionStatement(stmt)`
isModuleLevel(stmt) == stmt.kind = "ExpressionStatement"

\* parser.ts:269-274
RECURSIVE moduleLevelCallSites(_, _)
moduleLevelCallSites(statements, i) ==
    IF i > Len(statements) THEN <<>>
    ELSE (IF isModuleLevel(statements[i]) THEN extractCallSites(statements[i]) ELSE <<>>)
         \o moduleLevelCallSites(statements, i + 1)

\* parser.ts:276-288: the <module> function, if there is a call site for it
moduleFunctions(callSites) ==
    IF Len(callSites) > 0
    THEN <<[qualifiedName |-> <<"<module>">>, line |-> 1, isInstrumented |-> FALSE,
            callSites |-> callSites, diDefaults |-> <<>>]>>
    ELSE <<>>

InitParse ==
    /\ \E shapes \in SeqsUpTo(StatementKinds, MaxStatements) :
          arg = [tag |-> "parseSource",
                 statements |-> [i \in 1..Len(shapes) |-> Statement(shapes[i], 10 * i)]]
    /\ out = NoArg
    /\ files = <<>>
    /\ includeExternal = FALSE
    /\ options = [maxDepth |-> 0, maxNodes |-> 0]
    /\ sourceIds = <<>>
    /\ targetIds = <<>>
    /\ srcIdx = 1
    /\ pc = "parse"
    /\ graph = createEmptyGraph
    /\ queue = <<>>
    /\ visited = {}
    /\ edgeKeys = {}
    /\ cur = [id |-> <<>>, depth |-> 0, i |-> 0]
    /\ depthOf = <<>>
    /\ bfsGraphs = <<>>
    /\ fullGraph = createEmptyGraph
    /\ outputGraph = createEmptyGraph

\* parseSource(filePath, text): the functions it finds at module level
ApplyParseSource ==
    /\ pc = "parse"
    /\ out = NoArg
    /\ out' = [tag |-> "parsed",
               functions |-> moduleFunctions(moduleLevelCallSites(arg.statements, 1))]
    /\ UNCHANGED <<build, arg>>

NextParse == ApplyParseSource

SpecParse == InitParse /\ [][NextParse]_vars

\* the calls of a tree that are outside every function and class
RECURSIVE callsOutside(_)
RECURSIVE callsOutsideEach(_, _)
callsOutsideEach(children, i) ==
    IF i > Len(children) THEN {}
    ELSE callsOutside(children[i]) \cup callsOutsideEach(children, i + 1)

callsOutside(node) ==
    IF isScope(node) THEN {}
    ELSE (IF node.kind = "CallExpression" /\ node.expression.kind = "Identifier"
          THEN {<<node.expression.text, node.line>>} ELSE {})
         \cup callsOutsideEach(node.children, 1)

\* the call sites of the <module> function, none if there is no such function
moduleCallSites(functions) ==
    IF \E k \in 1..Len(functions) : functions[k].qualifiedName = <<"<module>">>
    THEN seqToSet(functions[CHOOSE k \in 1..Len(functions) :
                                functions[k].qualifiedName = <<"<module>">>].callSites)
    ELSE {}

\* C25: every call that occurs in a top-level statement of a file outside
\* any function or class declaration - including calls inside top-level
\* loops and conditionals - is recorded by parseSource as a call site of the
\* file's `<module>` function.
C25_ModuleLevelCalls ==
    out.tag = "parsed"
    => \A i \in 1..Len(arg.statements) :
           \A c \in callsOutside(arg.statements[i]) :
               \E site \in moduleCallSites(out.functions) :
                   site.calleeName = c[1] /\ site.line = c[2]

----------------------------------------------------------------------------
(* FunctionId: the ids of the nodes of a build                             *)

\* the (filePath, qualifiedName) pairs the build made a node id from
nodePairs ==
    UNION {{<<g.nodes[k].filePath, g.nodes[k].qualifiedName>> : k \in 1..Len(g.nodes)} :
           g \in allGraphs}

\* C26: for every (filePath, qualifiedName) pair from which the program
\* builds a node id, parseFunctionId(makeFunctionId(filePath, qualifiedName))
\* returns exactly that filePath and that qualifiedName.
C26_FunctionIdRoundTrip ==
    \A p \in nodePairs :
        parseFunctionId(makeFunctionId(p[1], p[2]))
            = [tag |-> "ok", filePath |-> p[1], qualifiedName |-> p[2]]

----------------------------------------------------------------------------
(* dotRenderer: the edges of the DOT output                                *)

\* types.ts:81-88, the closed set of edge kinds
EdgeKind ==
    {"direct", "static-method", "di-default", "instrument-wrapper", "instance-method",
     "re-export", "external"}

\* a switch that ends without a return gives undefined
Undefined == [tag |-> "undefined"]

\* dotRenderer.ts:30-43, edgeStyle: the attributes of an edge of a kind
edgeStyle(kind) ==
    IF kind = "direct" THEN [tag |-> "some", val |-> <<>>]
    ELSE IF kind = "static-method"
    THEN [tag |-> "some", val |-> <<" [", "color=#6fa8dc", "]">>]
    ELSE IF kind = "di-default"
    THEN [tag |-> "some", val |-> <<" [", "style=dashed", "color=#b48ead", "label=DI", "]">>]
    ELSE IF kind = "instrument-wrapper"
    THEN [tag |-> "some", val |-> <<" [", "style=dotted", "color=#888888", "]">>]
    ELSE IF kind = "re-export"
    THEN [tag |-> "some",
          val |-> <<" [", "style=dotted", "color=#ebcb8b", "label=re-export", "]">>]
    ELSE Undefined

\* `${style}` in a template literal: undefined is written as the word
interpolated(value) == IF value = Undefined THEN <<"undefined">> ELSE value.val

\* dotRenderer.ts:22-25, nodeIdToDot
nodeIdToDot(id) == <<"\"">> \o id \o <<"\"">>

\* dotRenderer.ts:97-100: the line of each edge and the style it was given
RECURSIVE edgeLines(_, _)
edgeLines(edges, i) ==
    IF i > Len(edges) THEN <<>>
    ELSE <<[style |-> edgeStyle(edges[i].kind),
            text |-> <<"  ">> \o nodeIdToDot(edges[i].callerId) \o <<" -> ">>
                     \o nodeIdToDot(edges[i].calleeId)
                     \o interpolated(edgeStyle(edges[i].kind)) \o <<";">>]>>
         \o edgeLines(edges, i + 1)

\* the edges a build can make between the nodes A, B and C: of any kind
DotEdges ==
    {[callerId |-> p[1], calleeId |-> p[2], kind |-> k, callLine |-> 1] :
        p \in {<<NodeA, NodeB>>, <<NodeB, NodeC>>}, k \in EdgeKind}

InitDot ==
    /\ \E s \in SeqsUpTo(DotEdges, MaxDotEdges) : arg = [tag |-> "renderDot", edges |-> s]
    /\ out = NoArg
    /\ files = <<>>
    /\ includeExternal = FALSE
    /\ options = [maxDepth |-> 0, maxNodes |-> 0]
    /\ sourceIds = <<>>
    /\ targetIds = <<>>
    /\ srcIdx = 1
    /\ pc = "dot"
    /\ graph = createEmptyGraph
    /\ queue = <<>>
    /\ visited = {}
    /\ edgeKeys = {}
    /\ cur = [id |-> <<>>, depth |-> 0, i |-> 0]
    /\ depthOf = <<>>
    /\ bfsGraphs = <<>>
    /\ fullGraph = createEmptyGraph
    /\ outputGraph = createEmptyGraph

\* renderDot(graph, options): the lines of the edges (dotRenderer.ts:96-100);
\* the header and the clusters of the nodes do not depend on the edges
ApplyRenderDot ==
    /\ pc = "dot"
    /\ out = NoArg
    /\ out' = [tag |-> "dot", lines |-> edgeLines(arg.edges, 1)]
    /\ UNCHANGED <<build, arg>>

NextDot == ApplyRenderDot

SpecDot == InitDot /\ [][NextDot]_vars

\* C27: renderDot gives every edge, whatever member of the closed EdgeKind
\* set its kind is, a defined style from the style vocabulary; no kind of
\* that set is left without a case.
C27_EveryKindStyled ==
    out.tag = "dot"
    => \A k \in 1..Len(arg.edges) :
           /\ arg.edges[k].kind \in EdgeKind
           /\ out.lines[k].style # Undefined
           /\ "undefined" \notin seqToSet(out.lines[k].text)

----------------------------------------------------------------------------
(* render.ts: the visualiser.  arg is the state of one renderGraph call    *)
(* (collapsedFiles, focusedNodeIds, hiddenNodeIds, direction, the element  *)
(* maps and layers, the pending fade-out timers) and out is currentLayout. *)
(* An element is the number of its creation; a Map is the sequence of its  *)
(* entries [key, el] in insertion order.  Timers have one delay,           *)
(* TRANSITION_MS: they fire in the order they were set, and the timers one *)
(* updateLayout call set are due together and fire one after the other.    *)

\* render-utils.ts:39
TRANSITION_MS == 300

\* `${from}→${to}`
edgeElKey(e) == e.from \o <<"->">> \o e.to

\* the keys of a Map, in insertion order
RECURSIVE keysOf(_, _)
keysOf(els, i) == IF i > Len(els) THEN <<>> ELSE <<els[i].key>> \o keysOf(els, i + 1)

\* Map.delete(key)
RECURSIVE mapDelete(_, _)
mapDelete(els, key) ==
    IF els = <<>> THEN <<>>
    ELSE (IF Head(els).key = key THEN <<>> ELSE <<Head(els)>>) \o mapDelete(Tail(els), key)

\* the keys of a Map built by `set` on each of s: the first of equal keys
\* keeps its place
RECURSIVE distinctKeys(_, _)
distinctKeys(s, i) ==
    IF i > Len(s) THEN <<>>
    ELSE (IF \E j \in 1..(i - 1) : s[j] = s[i] THEN <<>> ELSE <<s[i]>>)
         \o distinctKeys(s, i + 1)

\* render-utils.ts:215-220
filterByFocus(graphData, focusIds) ==
    [nodes |-> keptNodes(graphData.nodes, seqToSet(idsOf(graphData.nodes)) \ focusIds, 1),
     edges |-> SelectSeq(graphData.edges,
                         LAMBDA e : /\ e.from \in seqToSet(idsOf(graphData.nodes)) \cap focusIds
                                    /\ e.to \in seqToSet(idsOf(graphData.nodes)) \cap focusIds)]

\* render-utils.ts:222-228
filterByHidden(graphData, hiddenIds) ==
    IF hiddenIds = {} THEN graphData
    ELSE [nodes |-> keptNodes(graphData.nodes, hiddenIds, 1),
          edges |-> SelectSeq(graphData.edges,
                              LAMBDA e : /\ e.from \in seqToSet(idsOf(graphData.nodes)) \ hiddenIds
                                         /\ e.to \in seqToSet(idsOf(graphData.nodes)) \ hiddenIds)]

\* render.ts:1471-1487, buildAdjacency: the edges between nodes of the layout
adjacentTo(l, id, forward) ==
    {IF forward THEN l.edges[k].to ELSE l.edges[k].from :
        k \in {j \in 1..Len(l.edges) :
                  /\ (IF forward THEN l.edges[j].from ELSE l.edges[j].to) = id
                  /\ l.edges[j].from \in seqToSet(idsOf(l.nodes))
                  /\ l.edges[j].to \in seqToSet(idsOf(l.nodes))}}

\* render.ts:1489-1517, bfsForward and bfsBackward: the ids visited from S
RECURSIVE bfsFrom(_, _, _)
bfsFrom(S, l, forward) ==
    IF UNION {adjacentTo(l, id, forward) : id \in S} \subseteq S THEN S
    ELSE bfsFrom(S \cup UNION {adjacentTo(l, id, forward) : id \in S}, l, forward)

\* render.ts:1519-1532
layoutIdsToOriginal(ids, data) ==
    UNION {IF startsWith(id, "__collapsed:")
           THEN {data.nodes[k].id : k \in {j \in 1..Len(data.nodes) :
                                              data.nodes[j].filePath = SubSeq(id, 2, Len(id))}}
           ELSE {id} : id \in ids}

\* render.ts:1536-1543 on fullLayout = layoutGraph(data, collapsedFiles)
connectedIn(fullLayout, clickedNodeId) ==
    bfsFrom({clickedNodeId}, fullLayout, TRUE) \cup bfsFrom({clickedNodeId}, fullLayout, FALSE)

computeFocusSet(v, clickedNodeId) ==
    layoutIdsToOriginal(
        connectedIn(layoutGraph(v.data, v.collapsedFiles, <<>>, "LR"), clickedNodeId),
        v.data)

\* render.ts:1578-1579
effectiveOf(v) ==
    filterByHidden(IF v.focusedNodeIds = Null THEN v.data
                   ELSE filterByFocus(v.data, v.focusedNodeIds.val),
                   v.hiddenNodeIds)

\* render.ts:1577-1589, relayout: the new layout
relayout(v, currentLayout) ==
    layoutGraph(effectiveOf(v), v.collapsedFiles, currentLayout.clusterOrder, v.direction)

\* the keys updateLayout puts in newNodeMap, newEdgeMap and newClusterMap
RECURSIVE nodeKeys(_, _)
nodeKeys(nodes, i) ==
    IF i > Len(nodes) THEN <<>> ELSE <<nodes[i].id>> \o nodeKeys(nodes, i + 1)

RECURSIVE edgeKeysOf(_, _)
edgeKeysOf(edges, i) ==
    IF i > Len(edges) THEN <<>> ELSE <<edgeElKey(edges[i])>> \o edgeKeysOf(edges, i + 1)

RECURSIVE clusterKeys(_, _)
clusterKeys(clusters, i) ==
    IF i > Len(clusters) THEN <<>>
    ELSE <<clusters[i].filePath>> \o clusterKeys(clusters, i + 1)

\* render.ts:1759-1766 and its copies: a timer for each entry that is not in
\* the new layout
RECURSIVE fadeOut(_, _, _, _)
fadeOut(els, newKeys, map, i) ==
    IF i > Len(els) THEN <<>>
    ELSE (IF els[i].key \in seqToSet(newKeys) THEN <<>>
          ELSE <<[map |-> map, key |-> els[i].key, el |-> els[i].el]>>)
         \o fadeOut(els, newKeys, map, i + 1)

\* render.ts:1770-1781 and its copies: an element for each key of the new
\* layout that had no entry
RECURSIVE fadeIn(_, _, _, _)
fadeIn(newKeys, oldKeys, made, i) ==
    IF i > Len(newKeys) THEN <<>>
    ELSE IF newKeys[i] \in oldKeys THEN fadeIn(newKeys, oldKeys, made, i + 1)
    ELSE <<[key |-> newKeys[i], el |-> made + 1]>> \o fadeIn(newKeys, oldKeys, made + 1, i + 1)

elsOf(entries) == {entries[i].el : i \in 1..Len(entries)}

\* one of the three diffs of updateLayout on the state v
diffed(v, map, layer, newKeys) ==
    [v EXCEPT ![map] = @ \o fadeIn(newKeys, seqToSet(keysOf(v[map], 1)), v.made, 1),
              ![layer] = @ \cup elsOf(fadeIn(newKeys, seqToSet(keysOf(v[map], 1)), v.made, 1)),
              !.made = @ + Len(fadeIn(newKeys, seqToSet(keysOf(v[map], 1)), v.made, 1)),
              !.fading = @ \o fadeOut(v[map], newKeys, map, 1)]

\* the timers of one call are due at one time
scheduled(v) ==
    [v EXCEPT !.timers = IF v.fading = <<>> THEN @ ELSE Append(@, v.fading),
              !.fading = <<>>]

\* render.ts:1732-1891, updateLayout(newLayout): nodes, edges, clusters
updateLayout(v, newLayout) ==
    scheduled(
        diffed(diffed(diffed(v, "nodeEls", "nodeLayer",
                             distinctKeys(nodeKeys(newLayout.nodes, 1), 1)),
                      "edgeEls", "edgeLayer",
                      distinctKeys(edgeKeysOf(newLayout.edges, 1), 1)),
               "clusterEls", "clusterLayer",
               distinctKeys(clusterKeys(newLayout.clusters, 1), 1)))

\* render.ts:1212-1230, the initial render: an element for each cluster,
\* edge and node; a later `set` of a key replaces the element of the entry
RECURSIVE rendered(_, _, _)
rendered(keys, made, i) ==
    IF i > Len(keys) THEN <<>>
    ELSE <<[key |-> keys[i],
            el |-> made + greatest({j \in 1..Len(keys) : keys[j] = keys[i]})]>>
         \o rendered(keys, made, i + 1)

appended(keys, made) == (made + 1)..(made + Len(keys))

\* a graph of four nodes in three files, a and b in s/p, with edges of two
\* kinds, and the same graph with direct edges only
VisEdges(kind) ==
    <<GraphEdge("a", "b", 4), [GraphEdge("b", "c", 13) EXCEPT !.kind = kind],
      GraphEdge("a", "c", 2), GraphEdge("c", "d", 4)>>

VisDatas ==
    {[nodes |-> LayoutNodes, edges |-> VisEdges(kind)] : kind \in {"direct", "di-default"}}

\* the nodes and clusters the user acts on
FocusIds == {<<"a">>, <<"c">>}
HideIds == {<<"b">>, <<"c">>}
CollapseFiles == {<<"s", "/", "p">>}

InitVis ==
    /\ arg \in [tag : {"visualiser"}, data : VisDatas, collapsedFiles : {<<>>},
                focusedNodeIds : {Null}, hiddenNodeIds : {{}}, direction : {"LR"},
                nodeEls : {<<>>}, edgeEls : {<<>>}, clusterEls : {<<>>},
                nodeLayer : {{}}, edgeLayer : {{}}, clusterLayer : {{}},
                timers : {<<>>}, fading : {<<>>}, made : {0}, actions : {0},
                last : {[op |-> "none", id |-> <<>>]}]
    /\ out = NoArg
    /\ files = <<>>
    /\ includeExternal = FALSE
    /\ options = [maxDepth |-> 0, maxNodes |-> 0]
    /\ sourceIds = <<>>
    /\ targetIds = <<>>
    /\ srcIdx = 1
    /\ pc = "visualiser"
    /\ graph = createEmptyGraph
    /\ queue = <<>>
    /\ visited = {}
    /\ edgeKeys = {}
    /\ cur = [id |-> <<>>, depth |-> 0, i |-> 0]
    /\ depthOf = <<>>
    /\ bfsGraphs = <<>>
    /\ fullGraph = createEmptyGraph
    /\ outputGraph = createEmptyGraph

\* the state after the initial render of `layout`
renderedWith(v, clusters, edges, nodes) ==
    [v EXCEPT !.clusterEls = rendered(distinctKeys(clusters, 1), 0, 1),
              !.clusterLayer = appended(clusters, 0),
              !.edgeEls = [k \in 1..Len(distinctKeys(edges, 1)) |->
                              [key |-> distinctKeys(edges, 1)[k],
                               el |-> Len(clusters)
                                      + greatest({j \in 1..Len(edges) :
                                                     edges[j] = distinctKeys(edges, 1)[k]})]],
              !.edgeLayer = appended(edges, Len(clusters)),
              !.nodeEls = rendered(distinctKeys(nodes, 1), Len(clusters) + Len(edges), 1),
              !.nodeLayer = appended(nodes, Len(clusters) + Len(edges)),
              !.made = Len(clusters) + Len(edges) + Len(nodes),
              !.last = [op |-> "renderGraph", id |-> <<>>]]

\* main.ts:18-19, `renderGraph(container, layoutGraph(data), data)`
RenderGraph ==
    /\ pc = "visualiser"
    /\ out = NoArg
    /\ out' = layoutGraph(arg.data, <<>>, <<>>, "LR")
    /\ arg' = renderedWith(arg, clusterKeys(out'.clusters, 1), edgeKeysOf(out'.edges, 1),
                           nodeKeys(out'.nodes, 1))
    /\ UNCHANGED build

\* a handler changed the state to v and calls relayout()
Relaid(v, op, id) ==
    /\ out' = relayout(v, out)
    /\ arg' = updateLayout([v EXCEPT !.actions = @ + 1, !.last = [op |-> op, id |-> id]],
                           out')
    /\ UNCHANGED build

\* the user can act: the graph is rendered
Acting ==
    /\ pc = "visualiser"
    /\ out # NoArg
    /\ arg.actions < MaxVisActions

\* render.ts:1460-1467, toggleCollapse(filePath) from a click on a cluster
VisToggleCollapse ==
    /\ Acting
    /\ \E filePath \in CollapseFiles \cap seqToSet(keysOf(arg.clusterEls, 1)) :
          Relaid([arg EXCEPT !.collapsedFiles = toggled(@, filePath)],
                 "toggleCollapse", filePath)

\* render.ts:1593-1597, focusNode(nodeId) from the menu of a node
FocusNode ==
    /\ Acting
    /\ \E nodeId \in FocusIds \cap seqToSet(keysOf(arg.nodeEls, 1)) :
          Relaid([arg EXCEPT !.focusedNodeIds =
                                 [tag |-> "some", val |-> computeFocusSet(arg, nodeId)]],
                 "focusNode", nodeId)

\* render.ts:1620-1624, exitFocus()
ExitFocus ==
    /\ Acting
    /\ arg.focusedNodeIds # Null
    /\ Relaid([arg EXCEPT !.focusedNodeIds = Null], "exitFocus", <<>>)

\* render.ts:1659-1662, hideNode(nodeId) from the menu of a node
HideNode ==
    /\ Acting
    /\ \E nodeId \in HideIds \cap seqToSet(keysOf(arg.nodeEls, 1)) :
          Relaid([arg EXCEPT !.hiddenNodeIds = @ \cup {nodeId}], "hideNode", nodeId)

\* render.ts:1703-1706, showHidden()
ShowHidden ==
    /\ Acting
    /\ arg.hiddenNodeIds # {}
    /\ Relaid([arg EXCEPT !.hiddenNodeIds = {}], "showHidden", <<>>)

\* render.ts:1251-1255, toggleDirection()
ToggleDirection ==
    /\ Acting
    /\ Relaid([arg EXCEPT !.direction = IF @ = "TB" THEN "LR" ELSE "TB"],
              "toggleDirection", <<>>)

\* render.ts:1763-1766 and its copies, `el.remove(); nodeEls.delete(id)`
timeout(v, timer) ==
    [v EXCEPT ![timer.map] = mapDelete(@, timer.key),
              !.nodeLayer = IF timer.map = "nodeEls" THEN @ \ {timer.el} ELSE @,
              !.edgeLayer = IF timer.map = "edgeEls" THEN @ \ {timer.el} ELSE @,
              !.clusterLayer = IF timer.map = "clusterEls" THEN @ \ {timer.el} ELSE @]

RECURSIVE timeouts(_, _, _)
timeouts(v, due, i) ==
    IF i > Len(due) THEN v ELSE timeouts(timeout(v, due[i]), due, i + 1)

\* the timers of the oldest updateLayout call fire
FadeOutTimer ==
    /\ pc = "visualiser"
    /\ arg.tag = "visualiser"
    /\ arg.timers # <<>>
    /\ arg' = timeouts([arg EXCEPT !.timers = Tail(@)], Head(arg.timers), 1)
    /\ UNCHANGED <<build, out>>

NextVis ==
    \/ RenderGraph
    \/ VisToggleCollapse
    \/ FocusNode
    \/ ExitFocus
    \/ HideNode
    \/ ShowHidden
    \/ ToggleDirection
    \/ FadeOutTimer

SpecVis == InitVis /\ [][NextVis]_vars

\* the visualiser is at rest: the graph is rendered and no timer is pending
atRest == pc = "visualiser" /\ out # NoArg /\ arg.timers = <<>>

\* C28: after any sequence of visualiser actions that trigger a relayout
\* (collapse or expand, focus, exit focus, hide, show hidden, direction
\* toggle), however closely spaced in time, once all pending fade-out timers
\* have fired the visualiser holds exactly one node element for every
\* non-dummy node of the current layout and none for any other id.
C28_NodeElements ==
    atRest
    => /\ seqToSet(keysOf(arg.nodeEls, 1)) = seqToSet(nodeKeys(out.nodes, 1))
       /\ Len(arg.nodeEls) = Cardinality(seqToSet(nodeKeys(out.nodes, 1)))
       /\ arg.nodeLayer = elsOf(arg.nodeEls)
       /\ Cardinality(arg.nodeLayer) = Len(arg.nodeEls)


\* C29: after focusNode(n), for any set of hidden nodes that does not
\* include n, every node shown in the resulting layout is forward- or
\* backward-reachable from n using only nodes and edges that are themselves
\* shown.
C29_FocusConnected ==
    (/\ pc = "visualiser"
     /\ arg.last.op = "focusNode"
     /\ arg.last.id \notin arg.hiddenNodeIds
     /\ arg.last.id \in seqToSet(nodeKeys(out.nodes, 1)))
    => \A k \in 1..Len(out.nodes) : out.nodes[k].id \in connectedIn(out, arg.last.id)

\* C30: after renderGraph and after every relayout (once fade-out timers
\* have fired), the visualiser tracks one edge element per edge of the
\* current layout: no two edges of a layout result share the same (from, to)
\* pair, so the number of tracked edge elements equals the number of layout
\* edges.
C30_EdgeElements ==
    atRest
    => /\ \A i, j \in 1..Len(out.edges) :
              edgeElKey(out.edges[i]) = edgeElKey(out.edges[j]) => i = j
       /\ Len(arg.edgeEls) = Len(out.edges)

====
